---- MODULE Spec2Model ----
(***************************************************************************)
(* Market Structure Decision Engine (backend/app/services).                *)
(*                                                                         *)
(* Spec      : RegimeHistoryService.generate_history called on a candle    *)
(*             series and the three detectors' outputs.                    *)
(* SpecEval  : MarketStructureService.evaluate_structure, with malformed   *)
(*             input and the exception paths of every step.                *)
(* SpecResolve: MarketStructureService.resolve_bias on candidate lists.    *)
(* SpecAcc   : AccumulationZoneService.detect_zones on a candle series.    *)
(*                                                                         *)
(* Timestamps are ISO strings in the program and are compared with <=;     *)
(* here the timestamp of the i-th candle of a series is the integer i, and *)
(* 0 stands for a missing (or None / empty) value.                         *)
(***************************************************************************)
EXTENDS Integers, Sequences, FiniteSets, TLC

\* ------------------------------------------------------------------ bounds
\* longest candle series handed to the stitcher
MaxCandles == 3
\* zones / events reported by the three detectors together
MaxZones == 2
\* longest candle series handed to evaluate_structure
EvalMaxCandles == 1
\* zones / events the arbitration of one evaluate_structure call is given
EvalMaxZones == 2
\* longest candidate list handed to resolve_bias on its own
MaxCands == 2
\* longest series handed to the accumulation detector
MaxBars == 20
\* the series handed to it have MaxBars - BarSpan to MaxBars rows
BarSpan == 13
\* longest series handed to the distribution detector
DistBars == 30
\* the series handed to it have DistBars - DistSpan to DistBars rows
DistSpan == 0
\* the candles of the narrow range that ends such a series, at most
MaxTail == 9
\* longest base range of a series handed to the failed-breakout detector
MaxBase == 33
\* the base ranges have MaxBase - BaseSpan to MaxBase candles, or TestBase
BaseSpan == 2
\* the candles that follow the base range, at most
MaxAfter == 4
\* longest regime history handed to calculate_stability_metrics
MaxEvents == 3
\* largest score handed to calculate_composite_score, in tenths beyond 100.0
MaxExcess == 4
\* the risk inputs lie within MaxOffset units of each threshold
MaxOffset == 1
\* longest list of constraints handed to get_risk_summary
MaxConstraints == 4
\* longest series of well-formed candles handed to evaluate_structure
SeriesMaxCandles == 2

\* ------------------------------------------------------------------ values
None == "None"

Biases == {"ACCUMULATION", "DISTRIBUTION", "FAILED_BREAKOUT", "NEUTRAL"}

Confidences == {"Low", "Medium", "High"}

\* A raw OHLC row, by what the code can do with it:
\*   "time", "date", "timestamp": a record with numeric fields whose timestamp
\*                 is stored under that key;
\*   "none":       a record with numeric fields and no timestamp at all;
\*   "bad":        a record with a "time" whose volume is a string that is no number;
\*   "junk":       not a record (no .get).
RowKinds == {"time", "date", "timestamp"}

EvalRowKinds == {"time", "timestamp", "none", "bad", "junk"}

\* ------------------------------------------------- MarketStructureService

\* zone.get("confidence", "Medium")
ZoneConfidence(zone) ==
    IF zone.confidence = None THEN "Medium" ELSE zone.confidence

Last(s) == s[Len(s)]

\* mutant: distribution is looked at before failed breakouts
resolve_bias_dist_first(active_acc, active_dist, active_fail) ==
    IF active_dist # <<>>
    THEN [bias |-> "DISTRIBUTION", confidence |-> ZoneConfidence(Last(active_dist))]
    ELSE IF active_fail # <<>>
         THEN [bias |-> "FAILED_BREAKOUT", confidence |-> "High"]
    ELSE IF active_acc # <<>>
         THEN [bias |-> "ACCUMULATION", confidence |-> ZoneConfidence(Last(active_acc))]
    ELSE [bias |-> "NEUTRAL", confidence |-> "Low"]

\* mutant: the oldest candidate's confidence is reported, not the latest's
resolve_bias_oldest(active_acc, active_dist, active_fail) ==
    IF active_fail # <<>> THEN [bias |-> "FAILED_BREAKOUT", confidence |-> "High"]
    ELSE IF active_dist # <<>>
         THEN [bias |-> "DISTRIBUTION", confidence |-> ZoneConfidence(active_dist[1])]
    ELSE IF active_acc # <<>>
         THEN [bias |-> "ACCUMULATION", confidence |-> ZoneConfidence(active_acc[1])]
    ELSE [bias |-> "NEUTRAL", confidence |-> "Low"]

resolve_bias(active_acc, active_dist, active_fail) ==
    IF active_fail # <<>> THEN [bias |-> "FAILED_BREAKOUT", confidence |-> "High"]
    ELSE IF active_dist # <<>>
         THEN [bias |-> "DISTRIBUTION", confidence |-> ZoneConfidence(Last(active_dist))]
    ELSE IF active_acc # <<>>
         THEN [bias |-> "ACCUMULATION", confidence |-> ZoneConfidence(Last(active_acc))]
    ELSE [bias |-> "NEUTRAL", confidence |-> "Low"]

\* --------------------------------------------------- RegimeHistoryService

\* date_str = candle.get("time") or candle.get("date"); 0 when falsy
DateStr(candles, i) ==
    IF candles[i] \in {"time", "date", "bad"} THEN i ELSE 0

\* to_str(z["start_time"]) <= date_str <= to_str(z["end_time"])
ZoneActive(z, t) == z.start_time <= t /\ t <= z.end_time

\* the failed-breakout branch of the slice loop
FailActive(f, t) ==
    LET f_fail_time == f.failure_time
        f_start == IF f.breakout_time # 0 THEN f.breakout_time ELSE f_fail_time
        f_end == IF f_fail_time # 0 THEN f_fail_time ELSE f_start
    IN  \/ (f_fail_time # 0 /\ f_fail_time = t)
        \/ (f_start # 0 /\ f_end # 0 /\ f_start <= t /\ t <= f_end)

ActiveZones(zones, t) == SelectSeq(zones, LAMBDA z : ZoneActive(z, t))

ActiveFails(fails, t) == SelectSeq(fails, LAMBDA f : FailActive(f, t))

\* one pass of the slice loop for candle i: the raw state appended, if any
SliceState(candles, acc_zones, dist_zones, failed_breakouts, i) ==
    LET t == DateStr(candles, i)
        r == resolve_bias(ActiveZones(acc_zones, t), ActiveZones(dist_zones, t),
                          ActiveFails(failed_breakouts, t))
    IN  IF t = 0 THEN <<>>
        ELSE << [time |-> t, bias |-> r.bias, confidence |-> r.confidence, index |-> i] >>

RECURSIVE RawStates(_, _, _, _, _)
RawStates(candles, acc_zones, dist_zones, failed_breakouts, n) ==
    IF n = 0 THEN <<>>
    ELSE RawStates(candles, acc_zones, dist_zones, failed_breakouts, n - 1)
         \o SliceState(candles, acc_zones, dist_zones, failed_breakouts, n)

\* the templated narrative: the template's bias and the duration it prints
\* (0 for the templates that print none)
Narrative(bias, duration) ==
    IF bias \in {"ACCUMULATION", "DISTRIBUTION"} THEN <<bias, duration>>
    ELSE IF bias \in {"NEUTRAL", "FAILED_BREAKOUT"} THEN <<bias, 0>>
    ELSE <<None, 0>>

\* mutant: the narrative is the one of the event's first candle
_finalize_event_first(event, next_bias) ==
    [event EXCEPT !.transition_out = next_bias,
                  !.narrative = Narrative(event.bias, 1)]

_finalize_event(event, next_bias) ==
    [event EXCEPT !.transition_out = next_bias,
                  !.narrative = Narrative(event.bias, event.duration)]

NewEvent(state, transition_in) ==
    [start_time |-> state.time, end_time |-> state.time, bias |-> state.bias,
     confidence |-> state.confidence, duration |-> 1,
     transition_in |-> transition_in, transition_out |-> None,
     narrative |-> <<None, 0>>]

\* mutant: failed breakouts are stitched like every other bias
should_stitch_all(state, current_event) ==
    state.bias = current_event.bias

should_stitch(state, current_event) ==
    state.bias = current_event.bias /\ state.bias # "FAILED_BREAKOUT"

\* the loop of _compress_states from raw state k on; cur is current_event
RECURSIVE CompressFrom(_, _, _, _)
CompressFrom(raw_states, k, events, cur) ==
    IF k > Len(raw_states)
    THEN Append(events, _finalize_event(cur, None))
    ELSE LET state == raw_states[k]
         IN  IF should_stitch(state, cur)
             THEN CompressFrom(raw_states, k + 1, events,
                               [cur EXCEPT !.end_time = state.time,
                                           !.duration = cur.duration + 1])
             ELSE CompressFrom(raw_states, k + 1,
                               Append(events, _finalize_event(cur, state.bias)),
                               NewEvent(state, cur.bias))

_compress_states(raw_states) ==
    IF raw_states = <<>> THEN <<>>
    ELSE CompressFrom(raw_states, 2, <<>>, NewEvent(raw_states[1], None))

generate_history(candles, acc_zones, dist_zones, failed_breakouts) ==
    IF candles = <<>> THEN <<>>
    ELSE _compress_states(
             RawStates(candles, acc_zones, dist_zones, failed_breakouts, Len(candles)))

\* ------------------------------------------- the detectors' outer try/except

\* the outcome of a piece of code: the value it returns, or an exception
Ok(v) == [exc |-> FALSE, val |-> v]

Exc == [exc |-> TRUE, val |-> <<>>]

RowTime(kind, i) == IF kind \in {"time", "date", "timestamp", "bad"} THEN i ELSE 0

\* the timestamps of the rows a normalizer keeps (0: the candle's time is None)
NormalizeTimes(rows, Kept) ==
    LET idx == [i \in 1..Len(rows) |-> i]
        sel == SelectSeq(idx, LAMBDA i : rows[i] \in Kept)
    IN  [k \in 1..Len(sel) |-> RowTime(rows[sel[k]], sel[k])]

\* AccumulationZoneService._normalize and DistributionZoneService._normalize:
\* a row whose .get or float() raises is skipped, a row without timestamp is kept
ZoneNormalize(rows) == NormalizeTimes(rows, {"time", "date", "timestamp", "none"})

\* FailedBreakoutService._normalize: also skips rows without timestamp
FailNormalize(rows) == NormalizeTimes(rows, {"time", "date", "timestamp"})

\* The body of a detector's try block.  The scan behind the length guard is not
\* computed here: `core` is its outcome, either a list of zones over the
\* normalized candles or an exception.  Series in SpecEval are short, so the guards
\* (len(candles) < min_duration + 2, < precondition_window, < base_window + 5)
\* are taken at the one length every one of them rejects, the empty series.
DetectBody(ohlcOk, normalized, core) ==
    IF ~ohlcOk THEN Exc                       \* ohlc_data.get on a non-record
    ELSE IF normalized = <<>> THEN Ok(<<>>)
    ELSE core

\* mutant: a detector without its except clause
CatchList_none(outcome) == outcome

\* except Exception: return []
CatchList(outcome) == IF outcome.exc THEN Ok(<<>>) ELSE outcome

detect_zones(ohlcOk, rows, core) == CatchList(DetectBody(ohlcOk, ZoneNormalize(rows), core))

detect_failed_breakouts(ohlcOk, rows, core) ==
    CatchList(DetectBody(ohlcOk, FailNormalize(rows), core))

\* ------------------------------------------------------ evaluate_structure

\* mutant: the neutral state takes the confidence resolve_bias gave
NeutralConfidence_resolved == "Low"

\* confidence="High" of _get_neutral_state
NeutralConfidence == "High"

\* zone.get("confidence", "Low") of the _create_*_state helpers
StateConfidence(z) == IF z.confidence = None THEN "Low" ELSE z.confidence

\* _get_neutral_state raises on ohlc_data.get of a non-record, on c.get of a
\* row that is no record and on float() of a field that is no number (it
\* reads the last 40 rows: all rows of the series modelled)
NeutralRaises(ohlcOk, rows) ==
    ~ohlcOk \/ \E i \in 1..Len(rows) : rows[i] \in {"bad", "junk"}

\* z["start_time"] <= date_str <= z["end_time"] raises KeyError / TypeError
\* on a missing or None time; the chained comparison reads end_time only
\* when start_time <= date_str
CompareRaises(z, t) ==
    z.start_time = 0 \/ (z.start_time <= t /\ z.end_time = 0)

HistoryRaises(ohlcOk, rows, acc_zones, dist_zones) ==
    \/ ~ohlcOk
    \/ \E i \in 1..Len(rows) :
         \/ rows[i] = "junk"
         \/ /\ DateStr(rows, i) # 0
            /\ \E k \in 1..Len(acc_zones \o dist_zones) :
                  CompareRaises((acc_zones \o dist_zones)[k], DateStr(rows, i))

\* transition = None
NoTransition == [from |-> None, to |-> None]

LatestOf(list) == IF list = <<>> THEN <<>> ELSE <<Last(list)>>

\* transition_narration = None
NoNarration == <<>>

\* str.capitalize() on the names of the biases
Capitalize(name) ==
    CASE name = "ACCUMULATION" -> "Accumulation"
      [] name = "DISTRIBUTION" -> "Distribution"
      [] name = "FAILED_BREAKOUT" -> "Failed_breakout"
      [] name = "NEUTRAL" -> "Neutral"
      [] OTHER -> name

\* mutant: a shift into NEUTRAL is narrated too
Shifted_any(previous_bias, bias) == previous_bias # None /\ previous_bias # bias

\* previous_bias and previous_bias != state.bias and state.bias != "NEUTRAL"
Shifted(previous_bias, bias) ==
    previous_bias # None /\ previous_bias # bias /\ bias # "NEUTRAL"

Transition(previous_bias, bias) ==
    IF Shifted(previous_bias, bias)
    THEN [from |-> previous_bias, to |-> bias]
    ELSE NoTransition

\* the names the transition narration holds, in its order
Narration(previous_bias, bias) ==
    IF Shifted(previous_bias, bias)
    THEN <<Capitalize(previous_bias), Capitalize(bias)>>
    ELSE NoNarration

\* the except branch of evaluate_structure
ErrorState ==
    [bias |-> "NEUTRAL", confidence |-> "Low", error |-> TRUE,
     transition |-> NoTransition, transition_narration |-> NoNarration,
     regime_history |-> <<>>]

\* the try block of evaluate_structure; acc, dist and fail are the outcomes
\* of the three detector calls (of the arguments, where they are given)
EvaluateBody(ohlcOk, rows, previous_bias, acc, dist, fail) ==
    IF acc.exc \/ dist.exc \/ fail.exc THEN Exc
    ELSE
    LET accumulation_zones == acc.val
        distribution_zones == dist.val
        failed_breakouts == fail.val
        r == resolve_bias(LatestOf(accumulation_zones), LatestOf(distribution_zones),
                          LatestOf(failed_breakouts))
        confidence ==
            IF r.bias = "FAILED_BREAKOUT" THEN StateConfidence(Last(failed_breakouts))
            ELSE IF r.bias = "DISTRIBUTION" THEN StateConfidence(Last(distribution_zones))
            ELSE IF r.bias = "ACCUMULATION" THEN StateConfidence(Last(accumulation_zones))
            ELSE NeutralConfidence
    IN  IF r.bias = "NEUTRAL" /\ NeutralRaises(ohlcOk, rows) THEN Exc
        ELSE IF HistoryRaises(ohlcOk, rows, accumulation_zones, distribution_zones) THEN Exc
        ELSE Ok([bias |-> r.bias, confidence |-> confidence, error |-> FALSE,
                 transition |-> Transition(previous_bias, r.bias),
                 transition_narration |-> Narration(previous_bias, r.bias),
                 regime_history |-> generate_history(rows, accumulation_zones,
                                                     distribution_zones, failed_breakouts)])

\* except Exception: return the Neutral / Low state with details["error"]
CatchState(outcome) == IF outcome.exc THEN Ok(ErrorState) ELSE outcome

evaluate_structure(ohlcOk, rows, previous_bias, acc, dist, fail) ==
    CatchState(EvaluateBody(ohlcOk, rows, previous_bias, acc, dist, fail))

\* ------------------------------------------------ AccumulationZoneService
\* Prices are integers in thousandths of the currency unit, compression
\* thresholds are in thousandths, the other ratios in hundredths; the float
\* comparisons of the code are done by cross-multiplication.

\* defaults of __init__
min_duration == 8

max_duration == 25

lookback == 40

ideal_compression == 40

volume_stability_ratio == 70

wick_absorption_ratio == 35

close_position_bias == 45

\* the cut-offs written into _evaluate_window_formalized
ScoreTimeLow == 8

ScoreTimeHigh == 25

ScoreVolumeRatio == 70

ClimaxFactor == 110

MinScore == 3

ScoreMedium == 4

ScoreHigh == 6

\* TIMEFRAME_PROFILES.get(interval, TIMEFRAME_PROFILES["day"])
Profile(interval) ==
    CASE interval = "week" -> [compression_tolerance |-> 120, min_duration |-> 6]
      [] interval \in {"15minute", "5minute"} ->
                              [compression_tolerance |-> 40, min_duration |-> 8]
      [] OTHER -> [compression_tolerance |-> 50, min_duration |-> 8]

\* float(row.get(f) or 0): a field the row lacks reads as 0
Field(row, f) == IF f \in DOMAIN row THEN row[f] ELSE 0

\* row.get("date") or row.get("time") or row.get("timestamp"); 0: None
RowStamp(row) ==
    IF Field(row, "date") # 0 THEN row["date"]
    ELSE IF Field(row, "time") # 0 THEN row["time"]
    ELSE Field(row, "timestamp")

\* row.get(lower) or row.get(upper) or 0
FieldEither(row, lower, upper) ==
    IF Field(row, lower) # 0 THEN row[lower] ELSE Field(row, upper)

\* AccumulationZoneService._normalize on rows that are records of numbers
_normalize(data) ==
    [i \in 1..Len(data) |->
        [open |-> FieldEither(data[i], "open", "Open"),
         high |-> FieldEither(data[i], "high", "High"),
         low |-> FieldEither(data[i], "low", "Low"),
         close |-> FieldEither(data[i], "close", "Close"),
         volume |-> FieldEither(data[i], "volume", "Volume"),
         time |-> RowStamp(data[i])]]

\* round(x, 2) of a non-negative price (no price modelled lies on a tie)
Round2(x) == ((x + 5) \div 10) * 10

MaxOf(S) == CHOOSE x \in S : \A y \in S : y <= x

MinOf(S) == CHOOSE x \in S : \A y \in S : x <= y

RECURSIVE SumVolume(_, _)
SumVolume(cs, k) == IF k = 0 THEN 0 ELSE SumVolume(cs, k - 1) + cs[k].volume

\* sorted(vals)[k - 1]
KthSmallest(vals, k) ==
    CHOOSE v \in {vals[i] : i \in 1..Len(vals)} :
        /\ Cardinality({i \in 1..Len(vals) : vals[i] < v}) < k
        /\ k <= Cardinality({i \in 1..Len(vals) : vals[i] <= v})

\* ten times _percentile(values, 0.9)
_percentile(vals) ==
    IF vals = <<>> THEN 0
    ELSE LET k10 == (Len(vals) - 1) * 9
             f == k10 \div 10
         IN  IF k10 % 10 = 0 THEN 10 * KthSmallest(vals, f + 1)
             ELSE KthSmallest(vals, f + 1) * (10 * (f + 1) - k10)
                  + KthSmallest(vals, f + 2) * (k10 - 10 * f)

\* compression_pct > tolerance, compression_pct = (hi - lo) / mid if mid > 0 else 0
CompressionAbove(hi, lo, tolerance) ==
    hi + lo > 0 /\ 2000 * (hi - lo) > tolerance * (hi + lo)

\* volume_ratio < ratio, volume_ratio = avg_zone_vol / avg_prior_vol when
\* there is a prior window of positive average volume, else 1.0
VolumeRatioBelow(window, prior_window, ratio) ==
    /\ prior_window # <<>>
    /\ SumVolume(prior_window, Len(prior_window)) > 0
    /\ 100 * SumVolume(window, Len(window)) * Len(prior_window)
          < ratio * SumVolume(prior_window, Len(prior_window)) * Len(window)

\* part / max(c["high"] - c["low"], 1e-6) >= ratio
OfRangeAtLeast(part, c, ratio) ==
    IF c.high - c.low > 0 THEN 100 * part >= ratio * (c.high - c.low)
    ELSE part > 0

MinOpenClose(c) == IF c.open <= c.close THEN c.open ELSE c.close

\* a down candle whose volume exceeds vol_p90 * 1.1 (vol_p90 comes tenfold)
DownClimax(c, vol_p90) == c.close < c.open /\ 1000 * c.volume > ClimaxFactor * vol_p90

Score(window, prior_window) ==
    LET hi == MaxOf({window[i].high : i \in 1..Len(window)})
        lo == MinOf({window[i].low : i \in 1..Len(window)})
        duration == Len(window)
        absorption_candles ==
            Cardinality({i \in 1..duration :
                OfRangeAtLeast(MinOpenClose(window[i]) - window[i].low, window[i],
                               wick_absorption_ratio)})
        favorable_closes ==
            Cardinality({i \in 1..duration :
                OfRangeAtLeast(window[i].close - window[i].low, window[i],
                               close_position_bias)})
    IN  (IF ~CompressionAbove(hi, lo, ideal_compression) THEN 2 ELSE 0)
        + (IF ScoreTimeLow <= duration /\ duration <= ScoreTimeHigh THEN 1 ELSE 0)
        + (IF ~VolumeRatioBelow(window, prior_window, ScoreVolumeRatio) THEN 2 ELSE 0)
        + (IF absorption_candles >= 2 THEN 1 ELSE 0)
        + (IF 2 * favorable_closes >= duration THEN 1 ELSE 0)

ConfidenceOf(score) ==
    IF score >= ScoreHigh THEN "High" ELSE IF score >= ScoreMedium THEN "Medium" ELSE "Low"

\* the zone of a window, <<zone>>, or <<>> when the window is rejected
_evaluate_window_formalized(window, prior_window, compression_tolerance) ==
    LET hi == MaxOf({window[i].high : i \in 1..Len(window)})
        lo == MinOf({window[i].low : i \in 1..Len(window)})
        vol_p90 == _percentile([i \in 1..(Len(window) + Len(prior_window)) |->
                                   (window \o prior_window)[i].volume])
        score == Score(window, prior_window)
    IN  IF CompressionAbove(hi, lo, compression_tolerance) THEN <<>>
        ELSE IF VolumeRatioBelow(window, prior_window, volume_stability_ratio) THEN <<>>
        ELSE IF \E i \in 1..Len(window) : DownClimax(window[i], vol_p90) THEN <<>>
        ELSE IF score < MinScore THEN <<>>
        ELSE << [zone_high |-> Round2(hi), zone_low |-> Round2(lo),
                 start_time |-> window[1].time, end_time |-> window[Len(window)].time,
                 duration |-> Len(window), confidence |-> ConfidenceOf(score),
                 score |-> score] >>

\* candles[a:b] of Python, on the 1-based sequence
Slice(cs, a, b) == SubSeq(cs, a + 1, b)

\* the window of `dur` candles at idx, evaluated against its prior window
WindowZone(candles, idx, dur, comp_tol) ==
    _evaluate_window_formalized(
        Slice(candles, idx, idx + dur),
        Slice(candles, IF idx - dur > 0 THEN idx - dur ELSE 0, idx),
        comp_tol)

\* the while loop of _detect_zones_formalized from start index idx on
RECURSIVE ScanFrom(_, _, _, _, _)
ScanFrom(candles, idx, candidates, svc, profile) ==
    LET n == Len(candles)
        min_dur == profile.min_duration
        passing == {dur \in min_dur..svc.max_duration :
                       /\ idx + dur <= n
                       /\ WindowZone(candles, idx, dur,
                                     profile.compression_tolerance) # <<>>}
    IN  IF idx + min_dur > n THEN candidates
        ELSE IF passing = {} THEN ScanFrom(candles, idx + 1, candidates, svc, profile)
        ELSE LET best_zone == WindowZone(candles, idx, MaxOf(passing),
                                         profile.compression_tolerance)[1]
             IN  ScanFrom(candles, idx + best_zone.duration,
                          Append(candidates, best_zone), svc, profile)

\* sorted(zones, key=start_time): stable insertion of z into a sorted list
RECURSIVE InsertByStart(_, _)
InsertByStart(sorted, z) ==
    IF sorted = <<>> THEN <<z>>
    ELSE IF Last(sorted).start_time <= z.start_time THEN Append(sorted, z)
    ELSE Append(InsertByStart(SubSeq(sorted, 1, Len(sorted) - 1), z), Last(sorted))

RECURSIVE SortByStart(_, _)
SortByStart(zones, k) ==
    IF k = 0 THEN <<>> ELSE InsertByStart(SortByStart(zones, k - 1), zones[k])

RECURSIVE MergeFrom(_, _, _)
MergeFrom(zones_sorted, k, merged) ==
    IF k > Len(zones_sorted) THEN merged
    ELSE LET zone == zones_sorted[k]
             last == Last(merged)
         IN  IF merged # <<>> /\ zone.start_time <= last.end_time
             THEN MergeFrom(zones_sorted, k + 1,
                    [merged EXCEPT ![Len(merged)] =
                        [last EXCEPT
                           !.zone_high = MaxOf({last.zone_high, zone.zone_high}),
                           !.zone_low = MinOf({last.zone_low, zone.zone_low}),
                           !.end_time = MaxOf({last.end_time, zone.end_time}),
                           !.duration = MaxOf({last.duration, zone.duration}),
                           !.score = MaxOf({last.score, zone.score})]])
             ELSE MergeFrom(zones_sorted, k + 1, Append(merged, zone))

_merge_overlaps(zones) == MergeFrom(SortByStart(zones, Len(zones)), 1, <<>>)

_detect_zones_formalized(candles, svc, profile) ==
    LET n == Len(candles)
    IN  _merge_overlaps(
            ScanFrom(candles, IF n - svc.lookback > 0 THEN n - svc.lookback ELSE 0,
                     <<>>, svc, profile))

\* AccumulationZoneService.detect_zones(ohlc_data) with the formalized logic,
\* ohlc_data = {"data": data, "interval": interval}
AccumulationDetectZones(svc, data, interval) ==
    LET candles == _normalize(data)
        profile == Profile(interval)
    IN  IF Len(candles) < profile.min_duration + 2 THEN <<>>
        ELSE _detect_zones_formalized(candles, svc, profile)

\* ------------------------------------------------ DistributionZoneService
\* Same units as for the accumulation detector.

\* defaults of __init__
volume_ratio_threshold == 80

upper_wick_ratio == 35

dist_close_position_bias == 55

prior_advance_threshold == 20

\* the cut-offs written into _evaluate_window and _check_preconditions
DistScoreVolumeRatio == 80

UpsideMargin == 1002

SmaWindow == 200

\* TIMEFRAME_PROFILES.get(interval, TIMEFRAME_PROFILES["day"])
DistProfile(interval) ==
    CASE interval = "week" ->
            [compression_tolerance |-> 120, min_duration |-> 6, precondition_window |-> 30]
      [] interval \in {"15minute", "5minute"} ->
            [compression_tolerance |-> 40, min_duration |-> 8, precondition_window |-> 60]
      [] OTHER ->
            [compression_tolerance |-> 50, min_duration |-> 8, precondition_window |-> 60]

\* DistributionZoneService._normalize on rows that are records of numbers:
\* float(row.get(f, 0)) reads the lowercase key only
DistNormalize(rows) ==
    [i \in 1..Len(rows) |->
        [open |-> Field(rows[i], "open"), high |-> Field(rows[i], "high"),
         low |-> Field(rows[i], "low"), close |-> Field(rows[i], "close"),
         volume |-> Field(rows[i], "volume"), time |-> RowStamp(rows[i])]]

RECURSIVE SumClose(_, _)
SumClose(cs, k) == IF k = 0 THEN 0 ELSE SumClose(cs, k - 1) + cs[k].close

_check_preconditions_none(candles, sma, profile) == Ok(TRUE)

\* _check_preconditions: an outcome, since the division by price_start raises
\* on a zero price; sma is indicators["sma_200"], 0 when there is none
_check_preconditions(candles, sma, profile) ==
    LET n == Len(candles)
        curr_price == candles[n].close
        price_start == candles[n - profile.precondition_window + 1].close
        \* 200 * sma_200, the mean of the last 200 closes when none is given
        sma_200 == IF sma # 0 THEN SmaWindow * sma
                   ELSE IF n >= SmaWindow
                        THEN SumClose(SubSeq(candles, n - SmaWindow + 1, n), SmaWindow)
                   ELSE 0
    IN  IF price_start = 0 THEN Exc
        ELSE IF 100 * (curr_price - price_start) < prior_advance_threshold * price_start
             THEN Ok(FALSE)
        ELSE IF sma_200 # 0 /\ SmaWindow * curr_price < sma_200 THEN Ok(FALSE)
        ELSE Ok(TRUE)

\* part / max(c["high"] - c["low"], 1e-6) <= ratio
OfRangeAtMost(part, c, ratio) ==
    IF c.high - c.low > 0 THEN 100 * part <= ratio * (c.high - c.low)
    ELSE part <= 0

MaxOpenClose(c) == IF c.open >= c.close THEN c.open ELSE c.close

\* the candles of the window with upper-wick dominance
UpperWickCount(window) ==
    Cardinality({i \in 1..Len(window) :
        OfRangeAtLeast(window[i].high - MaxOpenClose(window[i]), window[i],
                       upper_wick_ratio)})

\* max(closes[-3:]) > zone_high * 1.002
UpsideAcceptance(window, zone_high) ==
    \E i \in 1..Len(window) :
        i > Len(window) - 3 /\ 1000 * window[i].close > UpsideMargin * zone_high

DistScore(window, prior_window) ==
    LET zone_high == MaxOf({window[i].high : i \in 1..Len(window)})
        zone_low == MinOf({window[i].low : i \in 1..Len(window)})
        duration == Len(window)
        low_closes ==
            Cardinality({i \in 1..duration :
                OfRangeAtMost(window[i].close - window[i].low, window[i],
                              dist_close_position_bias)})
    IN  (IF ~CompressionAbove(zone_high, zone_low, ideal_compression) THEN 2 ELSE 0)
        + (IF ScoreTimeLow <= duration /\ duration <= ScoreTimeHigh THEN 1 ELSE 0)
        + (IF ~VolumeRatioBelow(window, prior_window, DistScoreVolumeRatio) THEN 2 ELSE 0)
        + (IF UpperWickCount(window) >= 2 THEN 1 ELSE 0)
        + (IF 2 * low_closes >= duration THEN 1 ELSE 0)

_evaluate_window_scored(window, prior_window, compression_tolerance) ==
    LET zone_high == MaxOf({window[i].high : i \in 1..Len(window)})
        zone_low == MinOf({window[i].low : i \in 1..Len(window)})
        score == DistScore(window, prior_window)
    IN  IF zone_high + zone_low = 0 THEN Exc
        ELSE IF CompressionAbove(zone_high, zone_low, compression_tolerance) THEN Ok(<<>>)
        ELSE IF VolumeRatioBelow(window, prior_window, volume_ratio_threshold) THEN Ok(<<>>)
        ELSE IF UpsideAcceptance(window, zone_high) THEN Ok(<<>>)
        ELSE IF score < MinScore THEN Ok(<<>>)
        ELSE Ok(<< [start_time |-> window[1].time, end_time |-> window[Len(window)].time,
                    duration |-> Len(window), confidence |-> ConfidenceOf(score),
                    score |-> score] >>)

\* the outcome of _evaluate_window: <<zone>>, <<>> for a rejected window, or
\* the ZeroDivisionError of a zero zone_mid
_evaluate_window(window, prior_window, compression_tolerance) ==
    LET zone_high == MaxOf({window[i].high : i \in 1..Len(window)})
        zone_low == MinOf({window[i].low : i \in 1..Len(window)})
        score == DistScore(window, prior_window)
    IN  IF zone_high + zone_low = 0 THEN Exc
        ELSE IF CompressionAbove(zone_high, zone_low, compression_tolerance) THEN Ok(<<>>)
        ELSE IF VolumeRatioBelow(window, prior_window, volume_ratio_threshold) THEN Ok(<<>>)
        ELSE IF UpperWickCount(window) < 2 THEN Ok(<<>>)
        ELSE IF UpsideAcceptance(window, zone_high) THEN Ok(<<>>)
        ELSE IF score < MinScore THEN Ok(<<>>)
        ELSE Ok(<< [start_time |-> window[1].time, end_time |-> window[Len(window)].time,
                    duration |-> Len(window), confidence |-> ConfidenceOf(score),
                    score |-> score] >>)

\* the window of `duration` candles ending at end_idx, evaluated, when the scan
\* evaluates it (start_idx >= 0 and a prior window that is not empty)
DistWindow(candles, end_idx, duration, comp_tolerance) ==
    LET start_idx == end_idx - duration
    IN  IF start_idx <= 0 THEN Ok(<<>>)
        ELSE _evaluate_window(
                 Slice(candles, start_idx, end_idx),
                 Slice(candles, IF start_idx - duration > 0 THEN start_idx - duration ELSE 0,
                       start_idx),
                 comp_tolerance)

\* the inner loop at end_idx, from `duration` downwards: the first accepted
\* window, <<>> when there is none, or the exception raised on the way
RECURSIVE ScanDurations(_, _, _, _, _)
ScanDurations(candles, end_idx, duration, min_dur, comp_tolerance) ==
    IF duration < min_dur THEN Ok(<<>>)
    ELSE LET zone == DistWindow(candles, end_idx, duration, comp_tolerance)
         IN  IF zone.exc THEN Exc
             ELSE IF zone.val # <<>> THEN zone
             ELSE ScanDurations(candles, end_idx, duration - 1, min_dur, comp_tolerance)

\* the outer loop from end_idx downwards to `last`, appending to zones
RECURSIVE ScanEnds(_, _, _, _, _, _)
ScanEnds(candles, end_idx, last, zones, svc, profile) ==
    IF end_idx < last THEN Ok(zones)
    ELSE LET found == ScanDurations(candles, end_idx, svc.max_duration,
                                    profile.min_duration, profile.compression_tolerance)
         IN  IF found.exc THEN Exc
             ELSE ScanEnds(candles, end_idx - 1, last, zones \o found.val, svc, profile)

_merge_zones_oldest(zones) ==
    IF zones = <<>> THEN Ok(<<>>) ELSE Ok(<<zones[Len(zones)]>>)

\* zones.sort(key=end_time); return [zones[-1]]: the sort is stable, so the
\* zone returned is the last of the zones with the greatest end_time; sorting
\* two or more zones raises TypeError when an end_time is None
_merge_zones(zones) ==
    IF zones = <<>> THEN Ok(<<>>)
    ELSE IF Len(zones) >= 2 /\ \E k \in 1..Len(zones) : zones[k].end_time = 0 THEN Exc
    ELSE LET latest == MaxOf({zones[k].end_time : k \in 1..Len(zones)})
             at == MaxOf({k \in 1..Len(zones) : zones[k].end_time = latest})
         IN  Ok(<<zones[at]>>)

\* the try block of DistributionZoneService.detect_zones
DistDetectBody(svc, rows, interval, sma) ==
    LET candles == DistNormalize(rows)
        profile == DistProfile(interval)
        n == Len(candles)
        pre == _check_preconditions(candles, sma, profile)
        scanned == ScanEnds(candles, n, n - svc.lookback + 1, <<>>, svc, profile)
    IN  IF n < profile.precondition_window THEN Ok(<<>>)
        ELSE IF pre.exc THEN Exc
        ELSE IF ~pre.val THEN Ok(<<>>)
        ELSE IF scanned.exc THEN Exc
        ELSE _merge_zones(scanned.val)

\* DistributionZoneService.detect_zones(ohlc_data, indicators),
\* ohlc_data = {"data": rows, "interval": interval}
DistributionDetectZones(svc, rows, interval, sma) ==
    CatchList(DistDetectBody(svc, rows, interval, sma)).val

\* -------------------------------------------------- FailedBreakoutService
\* Prices in thousandths as above; min_breakout_range_pct in hundredths, the
\* wick/body and body/range cut-offs in tenths, the wick/range one in hundredths.

\* defaults of __init__
fb_lookback == 80

base_window == 30

min_breakout_range_pct == 1

reentry_window == 3

\* the cut-offs written into detect_failed_breakouts and _scan_failed_breakout
GuardBars == 5

MinRecent == 5

WickBodyRatio == 12

WickRangeRatio == 35

StrongBodyRatio == 6

MinSignals == 2

SignalsHigh == 4

SignalsMedium == 3

\* FailedBreakoutService._normalize on rows that are records of numbers: a row
\* without a timestamp is skipped
FbNormalize(rows) ==
    LET stamped(row) == RowStamp(row) # 0
        kept == SelectSeq(rows, stamped)
    IN  [i \in 1..Len(kept) |->
            [open |-> FieldEither(kept[i], "open", "Open"),
             high |-> FieldEither(kept[i], "high", "High"),
             low |-> FieldEither(kept[i], "low", "Low"),
             close |-> FieldEither(kept[i], "close", "Close"),
             volume |-> FieldEither(kept[i], "volume", "Volume"),
             time |-> RowStamp(kept[i])]]

RECURSIVE SumRange(_, _)
SumRange(cs, k) == IF k = 0 THEN 0 ELSE SumRange(cs, k - 1) + (cs[k].high - cs[k].low)

Abs(x) == IF x < 0 THEN -x ELSE x

\* what detect_failed_breakouts hands to both scans: the recent candles, the
\* levels, and avg_range and avg_vol as sums over the base_end base candles
FbBase(candles, fb) ==
    LET n == Len(candles)
        recent == IF fb.lookback > 0 /\ n > fb.lookback
                  THEN SubSeq(candles, n - fb.lookback + 1, n) ELSE candles
        half == Len(recent) \div 2
        base_end == IF fb.base_window >= half THEN fb.base_window ELSE half
        base == SubSeq(recent, 1, IF base_end <= Len(recent) THEN base_end ELSE Len(recent))
    IN  [recent |-> recent,
         resistance |-> MaxOf({base[i].high : i \in 1..Len(base)}),
         support |-> MinOf({base[i].low : i \in 1..Len(base)}),
         sum_range |-> SumRange(base, Len(base)),
         sum_vol |-> SumVolume(base, Len(base)),
         count |-> Len(base)]

LevelOf(direction, b) == IF direction = "up" THEN b.resistance ELSE b.support

\* the close of c is beyond the level by avg_range * min_breakout_range_pct
Beyond(direction, c, b, fb) ==
    IF direction = "up"
    THEN /\ c.close > b.resistance
         /\ 100 * (c.close - b.resistance) * b.count >= fb.min_breakout_range_pct * b.sum_range
    ELSE /\ c.close < b.support
         /\ 100 * (b.support - c.close) * b.count >= fb.min_breakout_range_pct * b.sum_range

\* breakout_idx, counted from 1: the latest breakout candidate after the first
\* base_window candles, 0 when there is none
BreakoutIdx(direction, b, fb) ==
    LET found == {i \in (fb.base_window + 1)..Len(b.recent) : Beyond(direction, b.recent[i], b, fb)}
    IN  IF found = {} THEN 0 ELSE MaxOf(found)

\* the last candle of `after`
WindowEnd(idx, b, fb) ==
    IF idx + fb.reentry_window <= Len(b.recent) THEN idx + fb.reentry_window
    ELSE Len(b.recent)

\* the five confirmations of the breakout candle at idx
Confirmations(direction, idx, b, fb) ==
    LET level == LevelOf(direction, b)
        bc == b.recent[idx]
        after == idx..WindowEnd(idx, b, fb)
        later == (idx + 1)..WindowEnd(idx, b, fb)
        rng == bc.high - bc.low
        body == Abs(bc.close - bc.open)
        wick == IF direction = "up" THEN bc.high - MaxOpenClose(bc)
                ELSE MinOpenClose(bc) - bc.low
        strong(c) == IF c.high - c.low > 0
                     THEN 10 * Abs(c.close - c.open) > StrongBodyRatio * (c.high - c.low)
                     ELSE Abs(c.close - c.open) > 0
    IN  [reentry |->
            \E i \in after : IF direction = "up" THEN b.recent[i].close < level
                             ELSE b.recent[i].close > level,
         vol_fail |-> bc.volume * b.count <= b.sum_vol,
         wick_reject |->
            /\ 10 * wick > WickBodyRatio * body
            /\ IF rng > 0 THEN 100 * wick > WickRangeRatio * rng ELSE wick > 0,
         no_follow_through |->
            /\ later # {}
            /\ ~\E i \in later : IF direction = "up" THEN b.recent[i].close > bc.close
                                 ELSE b.recent[i].close < bc.close,
         counter_candle |->
            \E i \in later :
                /\ strong(b.recent[i])
                /\ IF direction = "up" THEN b.recent[i].close < b.recent[i].open
                   ELSE b.recent[i].close > b.recent[i].open]

SignalNames == <<"vol_fail", "reentry", "wick_reject", "no_follow_through", "counter_candle">>

SignalCount(f) == Cardinality({k \in 1..Len(SignalNames) : f[SignalNames[k]]})

_classify_failure_volume_first(f) ==
    IF f.vol_fail /\ f.no_follow_through THEN "low_volume_fakeout"
    ELSE IF f.wick_reject /\ f.reentry THEN "immediate_rejection"
    ELSE IF f.counter_candle /\ f.reentry THEN "trap_reversal"
    ELSE "generic_failure"

_classify_failure(f) ==
    IF f.wick_reject /\ f.reentry THEN "immediate_rejection"
    ELSE IF f.counter_candle /\ f.reentry THEN "trap_reversal"
    ELSE IF f.vol_fail /\ f.no_follow_through THEN "low_volume_fakeout"
    ELSE "generic_failure"

FbConfidence(score) ==
    IF score >= SignalsHigh THEN "High"
    ELSE IF score = SignalsMedium THEN "Medium" ELSE "Low"

\* the context list: the level line, then one line per true confirmation
FbContext(f) ==
    <<"level">> \o SelectSeq(SignalNames, LAMBDA name : f[name])

\* _scan_failed_breakout: <<event>>, or <<>> for None
_scan_failed_breakout(direction, b, fb) ==
    LET idx == BreakoutIdx(direction, b, fb)
        f == Confirmations(direction, idx, b, fb)
    IN  IF Len(b.recent) < MinRecent \/ b.sum_range <= 0 THEN <<>>
        ELSE IF idx = 0 THEN <<>>
        ELSE IF SignalCount(f) < MinSignals THEN <<>>
        ELSE << [direction |-> direction,
                 breakout_level |-> Round2(LevelOf(direction, b)),
                 breakout_time |-> b.recent[idx].time,
                 failure_time |-> b.recent[WindowEnd(idx, b, fb)].time,
                 failure_type |-> _classify_failure(f),
                 context |-> FbContext(f),
                 confidence |-> FbConfidence(SignalCount(f))] >>

\* FailedBreakoutService.detect_failed_breakouts({"data": rows}); nothing in
\* the try block raises on rows that are records of numbers
FailedBreakoutDetect(fb, rows) ==
    LET candles == FbNormalize(rows)
        b == FbBase(candles, fb)
    IN  IF Len(candles) < fb.base_window + GuardBars THEN <<>>
        ELSE _scan_failed_breakout("up", b, fb) \o _scan_failed_breakout("down", b, fb)

\* -------------------------------------------------- RegimeStabilityService
\* Floats are exact fractions [num, den] here; round(x, k) yields the nearest
\* multiple of 10^-k, either neighbour when x lies halfway (the float decides).

RECURSIVE Gcd(_, _)
Gcd(a, b) == IF b = 0 THEN a ELSE Gcd(b, a % b)

\* the fraction n / d, d > 0, in lowest terms
Frac(n, d) ==
    LET g == Gcd(Abs(n), d)
    IN  [num |-> n \div g, den |-> d \div g]

FracAdd(x, y) == Frac(x.num * y.den + y.num * x.den, x.den * y.den)

FracTimes(x, n, d) == Frac(x.num * n, x.den * d)

FracMin(x, y) == IF x.num * y.den <= y.num * x.den THEN x ELSE y

FracMax(x, y) == IF x.num * y.den >= y.num * x.den THEN x ELSE y

\* round(x, k) in units of 1 / scale, scale = 10^k
Rounded(x, scale) ==
    LET below == (x.num * scale) \div x.den
    IN  {k \in {below, below + 1} : 2 * Abs(k * x.den - x.num * scale) <= x.den}

\* the cut-offs and weights written into _calculate_stability_score
DurationCap == 50

VolatilityCapInverse == 10

WeightDuration == 50

WeightVolatility == 30

WeightPersistence == 20

\* the digits kept by calculate_stability_metrics
RateScale == 1000

ScoreScale == 10

\* str.upper() on the names a regime is given by
Upper(name) ==
    CASE name = "accumulation" -> "ACCUMULATION"
      [] OTHER -> name

RECURSIVE TotalDuration(_, _)
TotalDuration(regime_history, k) ==
    IF k = 0 THEN 0 ELSE TotalDuration(regime_history, k - 1) + regime_history[k].duration

_calculate_current_duration_latest(regime_history, current_regime) ==
    IF regime_history = <<>> THEN 0 ELSE Last(regime_history).duration

_calculate_current_duration(regime_history, current_regime) ==
    IF regime_history = <<>> THEN 0
    ELSE IF Upper(Last(regime_history).bias) = Upper(current_regime)
         THEN Last(regime_history).duration
    ELSE 0

_calculate_volatility(regime_history) ==
    LET total_duration == TotalDuration(regime_history, Len(regime_history))
    IN  IF Len(regime_history) <= 1 THEN Frac(0, 1)
        ELSE IF total_duration = 0 THEN Frac(0, 1)
        ELSE Frac(Len(regime_history) - 1, total_duration)

_calculate_persistence(regime_history) ==
    IF regime_history = <<>> THEN Frac(0, 1)
    ELSE Frac(Cardinality({k \in 1..Len(regime_history) :
                              Upper(regime_history[k].bias) # "FAILED_BREAKOUT"}),
              Len(regime_history))

_calculate_stability_score(duration, volatility, persistence) ==
    LET duration_score == FracMin(Frac(duration * 100, DurationCap), Frac(100, 1))
        capped == FracMin(FracTimes(volatility, VolatilityCapInverse, 1), Frac(1, 1))
        volatility_score ==
            FracMax(Frac(0, 1), FracTimes(FracAdd(Frac(1, 1), FracTimes(capped, -1, 1)), 100, 1))
        persistence_score == FracTimes(persistence, 100, 1)
    IN  FracAdd(FracAdd(FracTimes(duration_score, WeightDuration, 100),
                        FracTimes(volatility_score, WeightVolatility, 100)),
                FracTimes(persistence_score, WeightPersistence, 100))

\* _get_default_metrics
DefaultMetrics ==
    [current_duration |-> 0, regime_volatility |-> 0, persistence_rate |-> 0,
     stability_score |-> 0, total_regimes |-> 0]

\* calculate_stability_metrics: the dicts it can return, regime_volatility and
\* persistence_rate in thousandths, stability_score in tenths
calculate_stability_metrics(regime_history, current_regime) ==
    IF regime_history = <<>> THEN {DefaultMetrics}
    ELSE LET current_duration == _calculate_current_duration(regime_history, current_regime)
             regime_volatility == _calculate_volatility(regime_history)
             persistence_rate == _calculate_persistence(regime_history)
             stability_score ==
                 _calculate_stability_score(current_duration, regime_volatility,
                                            persistence_rate)
         IN  {[current_duration |-> current_duration, regime_volatility |-> v,
               persistence_rate |-> q, stability_score |-> x,
               total_regimes |-> Len(regime_history)] :
                 v \in Rounded(regime_volatility, RateScale),
                 q \in Rounded(persistence_rate, RateScale),
                 x \in Rounded(stability_score, ScoreScale)}

\* ------------------------------------------------- CompositeScoringService
\* Scores in tenths.

\* WEIGHTS, in hundredths
WeightTechnical == 40

WeightFundamental == 40

WeightStability == 20

\* the bounds the inputs are normalized to
ScoreFloor == 0

ScoreCeiling == 1000

\* BANDS
StrongFrom == 70

NeutralFrom == 40

NeutralTo == 69

WeakTo == 39

Clamp_none(score) == score

\* max(0, min(100, score))
Clamp(score) ==
    IF score > ScoreCeiling THEN ScoreCeiling
    ELSE IF score < ScoreFloor THEN ScoreFloor
    ELSE score

\* _get_band on the composite value x, a fraction
_get_band(x) ==
    IF StrongFrom * x.den <= x.num /\ x.num <= 100 * x.den THEN "STRONG"
    ELSE IF NeutralFrom * x.den <= x.num /\ x.num <= NeutralTo * x.den THEN "NEUTRAL"
    ELSE IF 0 <= x.num /\ x.num <= WeakTo * x.den THEN "WEAK"
    ELSE "NEUTRAL"

\* calculate_composite_score: the dicts it can return, value in tenths
calculate_composite_score(technical_score, fundamental_score, stability_score) ==
    LET tech == Clamp(technical_score)
        funda == Clamp(fundamental_score)
        stability == Clamp(stability_score)
        composite_value ==
            Frac(tech * WeightTechnical + funda * WeightFundamental
                    + stability * WeightStability,
                 100 * ScoreScale)
    IN  {[value |-> v, band |-> _get_band(composite_value)] :
            v \in Rounded(composite_value, ScoreScale)}

\* ------------------------------------------------------ ConfluenceService
\* An argument of get_confluence_state: a string, given by its letters (word,
\* written in capitals) and the case they are typed in, or None, or a number.
Str(word, style) == [kind |-> "str", word |-> word, style |-> style]

NoneArg == [kind |-> "None", word |-> "", style |-> "upper"]

NumberArg == [kind |-> "number", word |-> "", style |-> "upper"]

\* the outcome of an expression: a value, or the exception it raised
Returned(v) == [raised |-> "", val |-> v]

Raised(type) == [raised |-> type, val |-> NoneArg]

str_upper_none(x) == IF x.kind = "str" THEN Returned(x) ELSE Raised("AttributeError")

\* x.upper(): AttributeError on what is not a string
str_upper(x) ==
    IF x.kind = "str" THEN Returned([x EXCEPT !.style = "upper"])
    ELSE Raised("AttributeError")

TechnicalRegime == {"ACCUMULATION", "NEUTRAL", "DISTRIBUTION", "FAILED_BREAKOUT"}

FundamentalRegime == {"STRONG", "NEUTRAL", "WEAK"}

\* Enum(value): the member with that value, ValueError when there is none
EnumOf(members, upper) ==
    IF upper.raised # "" THEN upper
    ELSE IF upper.val.style = "upper" /\ upper.val.word \in members
         THEN Returned(upper.val.word)
         ELSE Raised("ValueError")

Entry(label, confidence, risk_level) ==
    [label |-> label, confidence |-> confidence, risk_level |-> risk_level]

\* CONFLUENCE_MATRIX: label, confidence and risk_level of each entry
CONFLUENCE_MATRIX ==
    [key \in TechnicalRegime \X FundamentalRegime |->
        CASE key = <<"ACCUMULATION", "STRONG">> -> Entry("Aligned Strength", "HIGH", "LOW")
          [] key = <<"ACCUMULATION", "NEUTRAL">> -> Entry("Early Opportunity", "MEDIUM", "MEDIUM")
          [] key = <<"ACCUMULATION", "WEAK">> -> Entry("Structural Risk", "LOW", "HIGH")
          [] key = <<"NEUTRAL", "STRONG">> -> Entry("Fundamentals Leading", "MEDIUM", "MEDIUM")
          [] key = <<"NEUTRAL", "NEUTRAL">> -> Entry("Indecision", "LOW", "MEDIUM")
          [] key = <<"NEUTRAL", "WEAK">> -> Entry("Drift Risk", "LOW", "HIGH")
          [] key = <<"DISTRIBUTION", "STRONG">> -> Entry("Valuation Risk", "MEDIUM", "MEDIUM")
          [] key = <<"DISTRIBUTION", "NEUTRAL">> -> Entry("Exhaustion", "MEDIUM", "HIGH")
          [] key = <<"DISTRIBUTION", "WEAK">> -> Entry("Aligned Weakness", "HIGH", "HIGH")
          [] key = <<"FAILED_BREAKOUT", "STRONG">> -> Entry("Technical Failure", "LOW", "MEDIUM")
          [] key = <<"FAILED_BREAKOUT", "NEUTRAL">> -> Entry("Momentum Loss", "LOW", "HIGH")
          [] key = <<"FAILED_BREAKOUT", "WEAK">> -> Entry("Confirmed Breakdown", "HIGH", "HIGH")]

_get_default_state ==
    [state |-> "Indecision", confidence |-> "LOW", risk_level |-> "MEDIUM",
     technical_regime |-> "UNKNOWN", fundamental_regime |-> "UNKNOWN"]

\* get_confluence_state: the dict it returns, or the exception it lets out
get_confluence_state(tech_arg, funda_arg) ==
    LET tech == EnumOf(TechnicalRegime, str_upper(tech_arg))
        funda == EnumOf(FundamentalRegime, str_upper(funda_arg))
    IN  IF tech.raised \in {"ValueError", "AttributeError"} THEN Returned(_get_default_state)
        ELSE IF tech.raised # "" THEN tech
        ELSE IF funda.raised \in {"ValueError", "AttributeError"}
             THEN Returned(_get_default_state)
        ELSE IF funda.raised # "" THEN funda
        ELSE IF <<tech.val, funda.val>> \notin DOMAIN CONFLUENCE_MATRIX
             THEN Returned(_get_default_state)
        ELSE LET confluence_data == CONFLUENCE_MATRIX[<<tech.val, funda.val>>]
             IN  Returned([state |-> confluence_data.label,
                           confidence |-> confluence_data.confidence,
                           risk_level |-> confluence_data.risk_level,
                           technical_regime |-> tech.val,
                           fundamental_regime |-> funda.val])

\* -------------------------------------------------- RiskConstraintService
\* other_income_ratio in thousandths, roce in tenths of a percent,
\* net_margin_yoy_delta in hundredths of a percentage point. A dict is a
\* record of its values and the set of the keys it holds.

\* data.get(key, default)
Get(dict, key, default) == IF key \in dict.keys THEN dict[key] ELSE default

\* other_income_pct thresholds 15 and 30, in thousandths of the ratio
HealthyBelow == 150

HighIncomeFrom == 300

\* cost_of_capital 14.0 and the ROCE below which value is destroyed, in tenths
CostOfCapital == 140

LowRoce == 100

\* margin deltas -0.5 and -1.0, in hundredths
MildDelta == 50

SevereDelta == 100

\* the empty dicts
NoFundamentals ==
    [keys |-> {}, other_income_ratio |-> 0, roce |-> 0, net_margin_yoy_delta |-> 0]

NoTechnicals == [keys |-> {}, regime |-> Str("", "upper"), confidence |-> Str("", "upper")]

NoConstraint == <<>>

Constraint(dimension, severity) == <<[dimension |-> dimension, severity |-> severity]>>

\* _assess_earnings_quality: the constraint, or none
_assess_earnings_quality(fdata) ==
    LET other_income_ratio == Get(fdata, "other_income_ratio", 0)
    IN  IF other_income_ratio < HealthyBelow THEN NoConstraint
        ELSE IF other_income_ratio >= HighIncomeFrom
             THEN Constraint("Earnings Quality", "HIGH")
             ELSE Constraint("Earnings Quality", "MEDIUM")

\* _assess_capital_efficiency
_assess_capital_efficiency(fdata) ==
    LET roce == Get(fdata, "roce", 0)
    IN  IF roce >= CostOfCapital THEN NoConstraint
        ELSE IF roce < LowRoce THEN Constraint("Capital Efficiency", "HIGH")
             ELSE Constraint("Capital Efficiency", "MEDIUM")

\* _assess_price_structure; regime and confidence are strings
_assess_price_structure(tdata) ==
    LET regime == str_upper(Get(tdata, "regime", Str("", "upper"))).val
        confidence == str_upper(Get(tdata, "confidence", Str("", "upper"))).val
    IN  IF regime = Str("DISTRIBUTION", "upper") THEN Constraint("Price Structure", "HIGH")
        ELSE IF regime = Str("FAILED_BREAKOUT", "upper")
             THEN Constraint("Price Structure", "HIGH")
        ELSE IF regime = Str("NEUTRAL", "upper") /\ confidence = Str("LOW", "upper")
             THEN Constraint("Price Structure", "MEDIUM")
        ELSE NoConstraint

_assess_margin_pressure_strict(fdata) ==
    LET margin_delta == Get(fdata, "net_margin_yoy_delta", 0)
    IN  IF margin_delta >= -MildDelta THEN NoConstraint
        ELSE IF margin_delta < -SevereDelta THEN Constraint("Margin Pressure", "HIGH")
             ELSE Constraint("Margin Pressure", "MEDIUM")

\* _assess_margin_pressure
_assess_margin_pressure(fdata) ==
    LET margin_delta == Get(fdata, "net_margin_yoy_delta", 0)
    IN  IF margin_delta >= -MildDelta THEN NoConstraint
        ELSE IF margin_delta <= -SevereDelta THEN Constraint("Margin Pressure", "HIGH")
             ELSE Constraint("Margin Pressure", "MEDIUM")

\* assess_risk_constraints: the list of the active constraints
assess_risk_constraints(fdata, tdata) ==
    _assess_earnings_quality(fdata) \o _assess_capital_efficiency(fdata)
        \o _assess_price_structure(tdata) \o _assess_margin_pressure(fdata)

CountOf(list, severity) ==
    Cardinality({i \in 1..Len(list) : list[i].severity = severity})

overall_two_medium(high_count, medium_count) ==
    IF high_count >= 2 \/ medium_count >= 2 THEN "HIGH"
    ELSE IF high_count = 1 THEN "MEDIUM-HIGH"
    ELSE "LOW-MEDIUM"

\* the overall risk of a non-empty list
overall(high_count, medium_count) ==
    IF high_count >= 2 THEN "HIGH"
    ELSE IF high_count = 1 THEN "MEDIUM-HIGH"
    ELSE IF medium_count >= 2 THEN "MEDIUM"
    ELSE "LOW-MEDIUM"

\* get_risk_summary
get_risk_summary(list) ==
    IF list = <<>>
    THEN [overall_risk |-> "LOW", constraint_count |-> 0,
          high_severity_count |-> 0, medium_severity_count |-> 0]
    ELSE LET high_count == CountOf(list, "HIGH")
             medium_count == CountOf(list, "MEDIUM")
         IN  [overall_risk |-> overall(high_count, medium_count),
              constraint_count |-> Len(list),
              high_severity_count |-> high_count,
              medium_severity_count |-> medium_count]

\* ------------------------------------------------------------------- state
VARIABLES
    pc,          \* "idle": no call in progress; "called": arguments bound; "done": returned
    ohlcOk,      \* ohlc_data is a record (has .get) whose "data" is a list
    candles,     \* ohlc_data["data"]: the kind of each raw row, in series order
    argsGiven,   \* evaluate_structure is given acc_zones and dist_zones
    accArg,      \* its acc_zones argument
    distArg,     \* its dist_zones argument
    prev,        \* its previous_bias argument
    accZ,        \* accumulation zones handed to the arbitration / the stitcher
    distZ,       \* distribution zones handed to the arbitration / the stitcher
    failZ,       \* failed-breakout events handed to the arbitration / the stitcher
    detFailed,   \* the detectors whose try block raised during the call
    raisedBy,    \* the calls that let an exception out to their caller
    history,     \* the list generate_history returned
    state,       \* the MarketStructureState evaluate_structure returned
    resolved,    \* the (bias, confidence) resolve_bias returned
    svc,         \* the AccumulationZoneService: its constructor's settings
    interval,    \* ohlc_data["interval"] of the detect_zones call
    data,        \* ohlc_data["data"] of the detect_zones call
    zones,       \* the list detect_zones returned
    indicators,  \* indicators["sma_200"] of the detect_zones call, 0: none given
    fbEvents,    \* the list detect_failed_breakouts returned
    current,     \* current_regime of the calculate_stability_metrics call
    metrics,     \* the dict calculate_stability_metrics returned
    scores,      \* the three scores handed to calculate_composite_score
    composite,   \* the dict calculate_composite_score returned
    technical_regime,    \* technical_regime of the get_confluence_state call
    fundamental_regime,  \* its fundamental_regime
    confluence,  \* the dict get_confluence_state returned
    fundamental_data,    \* fundamental_data of the assess_risk_constraints call
    technical_data,      \* its technical_data
    constraints, \* the list assess_risk_constraints returned, or get_risk_summary is given
    summary,     \* the dict get_risk_summary returned
    scanIdx,     \* idx, the start index of the accumulation scan in progress
    scanCandidates,  \* candidates, the zones the scan has accepted so far
    taken        \* the windows it accepted: start index and duration of each

vars == <<pc, ohlcOk, candles, argsGiven, accArg, distArg, prev, accZ, distZ, failZ,
          detFailed, raisedBy, history, state, resolved, svc, interval, data, zones,
          indicators, fbEvents, current, metrics, scores, composite,
          technical_regime, fundamental_regime, confluence,
          fundamental_data, technical_data, constraints, summary,
          scanIdx, scanCandidates, taken>>

scoreVars == <<current, metrics, scores, composite>>

confVars == <<technical_regime, fundamental_regime, confluence>>

riskVars == <<fundamental_data, technical_data, constraints, summary>>

scanVars == <<scanIdx, scanCandidates, taken>>

otherVars == <<confVars, riskVars, scanVars>>

accVars == <<svc, interval, data, zones, indicators, fbEvents, scoreVars, otherVars>>

SeqsOfLen(S, n) == [1..n -> S]

SeqsUpTo(S, n) == UNION {SeqsOfLen(S, k) : k \in 0..n}

\* zones as the zone detectors build them: both times of the zone are
\* timestamps of the series, start not after end
ZoneSet(n, confs) ==
    {z \in [start_time : 1..n, end_time : 1..n, confidence : confs] :
        z.start_time <= z.end_time}

\* failed-breakout events: breakout candle, then the failure candle
FailSet(n) ==
    {f \in [breakout_time : 1..n, failure_time : 1..n, confidence : {"Medium"}] :
        f.breakout_time <= f.failure_time}

\* zones a caller of evaluate_structure may pass: as ZoneSet, or lacking
\* start_time (0, 0) or end_time (s, 0)
ArgZoneSet(n, confs) ==
    {z \in [start_time : 0..n, end_time : 0..n, confidence : confs] :
        \/ z.end_time = 0
        \/ (1 <= z.start_time /\ z.start_time <= z.end_time)}

\* zones a detector's scan can report over the candles it normalized: from
\* candle a to a later candle b of them, with those candles' times (0: None)
CoreZoneSet(times, confs) ==
    {[start_time |-> times[a], end_time |-> times[b], confidence |-> c] :
        a \in 1..Len(times), b \in 1..Len(times), c \in confs} \ 
    {z \in [start_time : 0..Len(times) + 2, end_time : 0..Len(times) + 2,
            confidence : confs] : z.end_time # 0 /\ z.start_time > z.end_time}

CoreFailSet(times, confs) ==
    {[breakout_time |-> times[a], failure_time |-> times[b], confidence |-> c] :
        a \in 1..Len(times), b \in 1..Len(times), c \in confs} \ 
    {f \in [breakout_time : 0..Len(times) + 2, failure_time : 0..Len(times) + 2,
            confidence : confs] : f.breakout_time > f.failure_time}

NoState ==
    [bias |-> None, confidence |-> None, error |-> FALSE,
     transition |-> NoTransition, transition_narration |-> NoNarration,
     regime_history |-> <<>>]

Blank ==
    /\ ohlcOk = TRUE
    /\ candles = <<>>
    /\ argsGiven = FALSE
    /\ accArg = <<>>
    /\ distArg = <<>>
    /\ prev = None
    /\ accZ = <<>>
    /\ distZ = <<>>
    /\ failZ = <<>>
    /\ detFailed = {}
    /\ raisedBy = {}
    /\ history = <<>>
    /\ state = NoState
    /\ resolved = [bias |-> None, confidence |-> None]
    /\ svc = [min_duration |-> min_duration, max_duration |-> max_duration, lookback |-> lookback]
    /\ interval = "day"
    /\ data = <<>>
    /\ zones = <<>>
    /\ indicators = 0
    /\ fbEvents = <<>>
    /\ current = None
    /\ metrics = DefaultMetrics
    /\ scores = <<0, 0, 0>>
    /\ composite = [value |-> 0, band |-> "WEAK"]
    /\ technical_regime = NoneArg
    /\ fundamental_regime = NoneArg
    /\ confluence = _get_default_state
    /\ fundamental_data = NoFundamentals
    /\ technical_data = NoTechnicals
    /\ constraints = <<>>
    /\ summary = get_risk_summary(<<>>)
    /\ scanIdx = 0
    /\ scanCandidates = <<>>
    /\ taken = <<>>

Init == pc = "idle" /\ Blank

\* ---------------------------------------------------------------- Spec

\* a caller binds the arguments of generate_history
Call ==
    /\ pc = "idle"
    /\ \E n \in 0..MaxCandles :
         \E na \in 0..MaxZones :
          \E nd \in 0..(MaxZones - na) :
           \E nf \in 0..(MaxZones - na - nd) :
             /\ candles' \in SeqsOfLen(RowKinds, n)
             /\ accZ' \in SeqsOfLen(ZoneSet(n, {"Low", "High"}), na)
             /\ distZ' \in SeqsOfLen(ZoneSet(n, {"Medium"}), nd)
             /\ failZ' \in SeqsOfLen(FailSet(n), nf)
    /\ UNCHANGED accVars
    /\ pc' = "called"
    /\ UNCHANGED <<ohlcOk, argsGiven, accArg, distArg, prev, detFailed, raisedBy,
                   history, state, resolved>>

GenerateHistory ==
    /\ pc = "called"
    /\ history' = generate_history(candles, accZ, distZ, failZ)
    /\ UNCHANGED accVars
    /\ pc' = "done"
    /\ UNCHANGED <<ohlcOk, candles, argsGiven, accArg, distArg, prev, accZ, distZ,
                   failZ, detFailed, raisedBy, state, resolved>>

Next == Call \/ GenerateHistory

Spec == Init /\ [][Next]_vars

\* ------------------------------------------------------------ SpecEval

\* a caller binds the arguments of evaluate_structure: either the series
\* alone, or the series with the zones it has already detected
CallEvaluate ==
    /\ pc = "idle"
    /\ prev' \in {None, "ACCUMULATION"}
    /\ \/ /\ ohlcOk' = FALSE
          /\ candles' = <<>>
       \/ /\ ohlcOk' = TRUE
          /\ candles' \in SeqsUpTo(EvalRowKinds, EvalMaxCandles)
    /\ \/ /\ argsGiven' = FALSE
          /\ accArg' = <<>>
          /\ distArg' = <<>>
       \/ /\ argsGiven' = TRUE
          /\ \E na \in 0..EvalMaxZones :
              /\ accArg' \in SeqsOfLen(ArgZoneSet(Len(candles'), {"Low", "High"}), na)
              /\ distArg' \in SeqsUpTo(ArgZoneSet(Len(candles'), {"Medium"}),
                                       EvalMaxZones - na)
    /\ UNCHANGED accVars
    /\ pc' = "called"
    /\ UNCHANGED <<accZ, distZ, failZ, detFailed, raisedBy, history, state, resolved>>

\* what a detector's scan can do in a call with `left` zones still to report
Cores(S, left) == {Exc} \cup {Ok(list) : list \in SeqsUpTo(S, left)}

\* the whole of evaluate_structure
EvaluateStructure ==
    /\ pc = "called"
    /\ \E coreF \in Cores(CoreFailSet(FailNormalize(candles), {"Low", "High"}),
                           EvalMaxZones - Len(accArg) - Len(distArg)) :
        \E coreD \in IF argsGiven THEN {Ok(distArg)}
                      ELSE Cores(CoreZoneSet(ZoneNormalize(candles), {"Medium"}),
                                 EvalMaxZones - Len(coreF.val)) :
         \E coreA \in IF argsGiven THEN {Ok(accArg)}
                       ELSE Cores(CoreZoneSet(ZoneNormalize(candles), {"Low", "High"}),
                                  EvalMaxZones - Len(coreF.val) - Len(coreD.val)) :
           LET fail == detect_failed_breakouts(ohlcOk, candles, coreF)
               dist == IF argsGiven THEN coreD ELSE detect_zones(ohlcOk, candles, coreD)
               acc == IF argsGiven THEN coreA ELSE detect_zones(ohlcOk, candles, coreA)
               out == evaluate_structure(ohlcOk, candles, prev, acc, dist, fail)
           IN  /\ failZ' = fail.val
               /\ distZ' = dist.val
               /\ accZ' = acc.val
               /\ detFailed' =
                     {d \in {"fail"} : DetectBody(ohlcOk, FailNormalize(candles), coreF).exc}
                     \cup {d \in {"dist"} : ~argsGiven
                              /\ DetectBody(ohlcOk, ZoneNormalize(candles), coreD).exc}
                     \cup {d \in {"acc"} : ~argsGiven
                              /\ DetectBody(ohlcOk, ZoneNormalize(candles), coreA).exc}
               /\ raisedBy' = {d \in {"fail"} : fail.exc} \cup {d \in {"dist"} : dist.exc}
                               \cup {d \in {"acc"} : acc.exc}
                               \cup {d \in {"evaluate"} : out.exc}
               /\ state' = IF out.exc THEN NoState ELSE out.val
    /\ UNCHANGED accVars
    /\ pc' = "done"
    /\ UNCHANGED <<ohlcOk, candles, argsGiven, accArg, distArg, prev, history, resolved>>

NextEval == CallEvaluate \/ EvaluateStructure

SpecEval == Init /\ [][NextEval]_vars

\* --------------------------------------------------------- SpecResolve

\* a candidate as resolve_bias reads it: its "confidence" entry, if it has one
Candidates == [confidence : Confidences \cup {None}]

CallResolve ==
    /\ pc = "idle"
    /\ accZ' \in SeqsUpTo(Candidates, MaxCands)
    /\ distZ' \in SeqsUpTo(Candidates, MaxCands)
    /\ failZ' \in SeqsUpTo(Candidates, MaxCands)
    /\ UNCHANGED accVars
    /\ pc' = "called"
    /\ UNCHANGED <<ohlcOk, candles, argsGiven, accArg, distArg, prev, detFailed,
                   raisedBy, history, state, resolved>>

ResolveBias ==
    /\ pc = "called"
    /\ resolved' = resolve_bias(accZ, distZ, failZ)
    /\ UNCHANGED accVars
    /\ pc' = "done"
    /\ UNCHANGED <<ohlcOk, candles, argsGiven, accArg, distArg, prev, accZ, distZ,
                   failZ, detFailed, raisedBy, history, state>>

NextResolve == CallResolve \/ ResolveBias

SpecResolve == Init /\ [][NextResolve]_vars

\* -------------------------------------------------------------- SpecAcc

\* The candle shapes the series are built from:
\*   "tight":   a one-unit range around 100, close above open, volume 1000
\*   "down":    the same range, close below open, volume 1400
\*   "thin":    as "tight" with volume 500
\*   "wide":    a range of 20 around 100
\*   "flat":    open = high = low = close
\*   "subcent": four prices within the same hundredth
\*   "nohigh":  as "tight", the row lacks its "high"
Shapes == {"tight", "down", "thin", "wide", "flat", "subcent", "nohigh"}

Bar(o, h, l, c, v, i) ==
    [open |-> o, high |-> h, low |-> l, close |-> c, volume |-> v, date |-> i]

\* the i-th row of a series, dated i
Row(shape, i) ==
    CASE shape = "tight" -> Bar(100000, 100500, 99500, 100100, 1000, i)
      [] shape = "down" -> Bar(100100, 100500, 99500, 100000, 1400, i)
      [] shape = "thin" -> Bar(100000, 100500, 99500, 100100, 500, i)
      [] shape = "wide" -> Bar(100000, 110000, 90000, 100000, 1000, i)
      [] shape = "flat" -> Bar(100000, 100000, 100000, 100000, 1000, i)
      [] shape = "subcent" -> Bar(100002, 100004, 100001, 100003, 1000, i)
      [] shape = "nohigh" ->
            [open |-> 100000, low |-> 99500, close |-> 100100, volume |-> 1000,
             date |-> i]

\* n rows: the first p of shape a, the others of shape b; the rows are dated
\* 1, 2, ... and, when dup is set, row p + 1 repeats the date of row p
Series(n, p, a, b, dup) ==
    [i \in 1..n |-> Row(IF i <= p THEN a ELSE b, IF dup /\ i > p /\ p > 0 THEN i - 1 ELSE i)]

\* a detector is constructed and detect_zones is called on a series
CallDetect ==
    /\ pc = "idle"
    /\ \E m \in {min_duration, min_duration + 2} :
         \E x \in {max_duration, min_duration + 2} :
          svc' = [min_duration |-> m, max_duration |-> x, lookback |-> lookback]
    /\ interval' \in {"day", "week"}
    /\ \E n \in (MaxBars - BarSpan)..MaxBars :
         \E p \in 0..n :
          \E a \in Shapes :
           \E b \in Shapes :
            \E dup \in BOOLEAN :
             data' = Series(n, p, a, b, dup)
    /\ pc' = "called"
    /\ UNCHANGED <<ohlcOk, candles, argsGiven, accArg, distArg, prev, accZ, distZ,
                   failZ, detFailed, raisedBy, history, state, resolved, zones,
                   indicators, fbEvents,
                   scoreVars, otherVars>>

DetectZones ==
    /\ pc = "called"
    /\ zones' = AccumulationDetectZones(svc, data, interval)
    /\ pc' = "done"
    /\ UNCHANGED <<ohlcOk, candles, argsGiven, accArg, distArg, prev, accZ, distZ,
                   failZ, detFailed, raisedBy, history, state, resolved, svc,
                   interval, data, indicators, fbEvents,
                   scoreVars, otherVars>>

NextAcc == CallDetect \/ DetectZones

SpecAcc == Init /\ [][NextAcc]_vars

\* ----------------------------------------------------------------- SpecDist
\* DistributionZoneService.detect_zones on series shaped as generate_candles
\* of test_distribution_logic.py builds them: an advance of wide candles, then
\* a tail of candles in a narrow range.
DistShapes == {"supply", "nowick", "over", "thin", "zero"}

KeyStyles == {"lower", "caps", "timeless"}

\* a row with the keys of the given style, stamped i under "time"
DistBar(o, h, l, c, v, i, keys) ==
    CASE keys = "caps" ->
            [Open |-> o, High |-> h, Low |-> l, Close |-> c, Volume |-> v, time |-> i]
      [] keys = "timeless" ->
            [open |-> o, high |-> h, low |-> l, close |-> c, volume |-> v]
      [] OTHER ->
            [open |-> o, high |-> h, low |-> l, close |-> c, volume |-> v, time |-> i]

\* a candle of the advance at price p
AdvanceRow(p, i, keys) == DistBar(p, p + 15000, p - 15000, p, 1000, i, keys)

\* a candle of the tail, on the base price
TailRow(shape, base, i, keys) ==
    CASE shape = "supply" ->
            DistBar(base + 2000, base + 4000, base, base + 1000, 1500, i, keys)
      [] shape = "nowick" ->
            DistBar(base + 2000, base + 2000, base, base + 1000, 1500, i, keys)
      [] shape = "over" ->
            DistBar(base + 1000, base + 4000, base, base + 4500, 1500, i, keys)
      [] shape = "thin" ->
            DistBar(base + 2000, base + 4000, base, base + 1000, 400, i, keys)
      [] OTHER -> DistBar(0, 0, 0, 0, 0, i, keys)

\* n rows: an advance from 100 by `step` a row, then a tail of z rows on the
\* base price, the last q of shape b and the others of shape a
DistSeries(n, step, base, z, q, a, b, keys) ==
    [i \in 1..n |->
        IF i <= n - z THEN AdvanceRow(100000 + step * i, i, keys)
        ELSE TailRow(IF i <= n - q THEN a ELSE b, base, i, keys)]

CallDetectDist ==
    /\ pc = "idle"
    /\ svc' = [min_duration |-> min_duration, max_duration |-> max_duration,
               lookback |-> lookback]
    /\ interval' \in {"day", "week"}
    /\ indicators' \in {0, 50000, 200000}
    /\ \E n \in (DistBars - DistSpan)..DistBars :
         \E step \in {0, 2000} :
          \E base \in {99000, 150000} :
           \E z \in 0..MaxTail :
            \E q \in 0..2 :
             \E a \in DistShapes :
              \E b \in DistShapes :
               \E keys \in KeyStyles :
                /\ q <= z
                /\ data' = DistSeries(n, step, base, z, q, a, b, keys)
    /\ pc' = "called"
    /\ UNCHANGED <<ohlcOk, candles, argsGiven, accArg, distArg, prev, accZ, distZ,
                   failZ, detFailed, raisedBy, history, state, resolved, zones,
                   fbEvents,
                   scoreVars, otherVars>>

DetectDistZones ==
    /\ pc = "called"
    /\ zones' = DistributionDetectZones(svc, data, interval, indicators)
    /\ pc' = "done"
    /\ UNCHANGED <<ohlcOk, candles, argsGiven, accArg, distArg, prev, accZ, distZ,
                   failZ, detFailed, raisedBy, history, state, resolved, svc,
                   interval, data, indicators, fbEvents,
                   scoreVars, otherVars>>

NextDist == CallDetectDist \/ DetectDistZones

SpecDist == Init /\ [][NextDist]_vars

\* ================================================================ properties

\* the priority order Failed Breakout > Distribution > Accumulation > Neutral
PriorityBias(acc, dist, fail) ==
    IF fail # <<>> THEN "FAILED_BREAKOUT"
    ELSE IF dist # <<>> THEN "DISTRIBUTION"
    ELSE IF acc # <<>> THEN "ACCUMULATION"
    ELSE "NEUTRAL"

RECURSIVE SumDurations(_, _)
\* the durations of the first k events, added up
SumDurations(events, k) ==
    IF k = 0 THEN 0 ELSE SumDurations(events, k - 1) + events[k].duration

\* the raw per-candle states the stitcher compressed into `history`
RawOfCall == RawStates(candles, accZ, distZ, failZ, Len(candles))

\* the event the j-th raw state went into
EventOf(events, j) ==
    CHOOSE k \in 1..Len(events) :
        SumDurations(events, k - 1) < j /\ j <= SumDurations(events, k)

C2_DurationsCoverCandles ==
    pc = "done" =>
        /\ SumDurations(history, Len(history)) = Len(candles)
        /\ \A i \in 1..Len(candles) :
              Cardinality({k \in 1..Len(history) :
                  history[k].start_time <= i /\ i <= history[k].end_time}) = 1

\* C3 as stated: events are chronological and gap-free (an event starts at
\* the candle right after the one its predecessor ends at), start_time is
\* never after end_time, and duration counts the candles from start_time to
\* end_time inclusive.
C3_EventsContiguous ==
    pc = "done" =>
        \A k \in 1..Len(history) :
            /\ history[k].start_time <= history[k].end_time
            /\ history[k].duration = history[k].end_time - history[k].start_time + 1
            /\ k < Len(history) => history[k + 1].start_time = history[k].end_time + 1

\* C4: with a failed-breakout candidate the confidence is High whatever the
\* candidates' own confidence; else with a distribution candidate it is the
\* confidence the last one of them records; else with an accumulation
\* candidate it is the confidence the last one of them records.
C4_ConfidenceOfWinner ==
    pc = "done" =>
        /\ failZ # <<>> => resolved.confidence = "High"
        /\ (failZ = <<>> /\ distZ # <<>> /\ Last(distZ).confidence # None)
              => resolved.confidence = Last(distZ).confidence
        /\ (failZ = <<>> /\ distZ = <<>> /\ accZ # <<>> /\ Last(accZ).confidence # None)
              => resolved.confidence = Last(accZ).confidence

\* two distribution candidates of different confidence, no failed breakout
C4_Witness ==
    /\ pc = "done"
    /\ failZ = <<>>
    /\ accZ # <<>>
    /\ Len(distZ) = 2
    /\ distZ[1].confidence # None /\ distZ[2].confidence # None
    /\ distZ[1].confidence # distZ[2].confidence
    /\ resolved = [bias |-> "DISTRIBUTION", confidence |-> distZ[2].confidence]

\* C5 as stated: resolve_bias on three empty lists returns NEUTRAL with
\* confidence High, and every NEUTRAL event the stitcher builds carries
\* confidence High.
C5_NeutralIsHigh ==
    pc = "done" =>
        /\ resolve_bias(<<>>, <<>>, <<>>) = [bias |-> "NEUTRAL", confidence |-> "High"]
        /\ \A k \in 1..Len(history) :
              history[k].bias = "NEUTRAL" => history[k].confidence = "High"

C7_NothingRaises ==
    pc = "done" =>
        /\ raisedBy = {}
        /\ "fail" \in detFailed => failZ = <<>>
        /\ "dist" \in detFailed => distZ = <<>>
        /\ "acc" \in detFailed => accZ = <<>>
        /\ candles = <<>> => failZ = <<>>
        /\ (candles = <<>> /\ ~argsGiven) => (accZ = <<>> /\ distZ = <<>>)
        /\ state.bias \in Biases /\ state.confidence \in Confidences
        /\ EvaluateBody(ohlcOk, candles, prev, Ok(accZ), Ok(distZ), Ok(failZ)).exc
              => state = ErrorState
        /\ state.error => (state.bias = "NEUTRAL" /\ state.confidence = "Low")

\* ohlc_data is no record: the body of every detector and of
\* evaluate_structure fails
C7_Witness ==
    /\ pc = "done"
    /\ ~ohlcOk
    /\ detFailed = {"fail", "dist", "acc"}
    /\ state.error

\* C8: every raw state went into an event of its bias; two consecutive raw
\* states of the same bias other than FAILED_BREAKOUT went into the same
\* event, whatever their confidence; every FAILED_BREAKOUT raw state is an
\* event of its own, of duration 1.
C8_StitchingRule ==
    pc = "done" =>
        LET raw == RawOfCall
        IN  /\ SumDurations(history, Len(history)) = Len(raw)
            /\ \A k \in 1..Len(history) : history[k].duration >= 1
            /\ \A j \in 1..Len(raw) : history[EventOf(history, j)].bias = raw[j].bias
            /\ \A j \in 1..(Len(raw) - 1) :
                  (raw[j].bias = raw[j + 1].bias /\ raw[j].bias # "FAILED_BREAKOUT")
                     => EventOf(history, j) = EventOf(history, j + 1)
            /\ \A j \in 1..Len(raw) :
                  raw[j].bias = "FAILED_BREAKOUT"
                     => history[EventOf(history, j)].duration = 1
            /\ \A k \in 1..(Len(history) - 1) :
                  history[k].bias = history[k + 1].bias
                     => history[k].bias = "FAILED_BREAKOUT"

\* two failed-breakout candles in a row after a candle of another bias
C8_Witness ==
    /\ pc = "done"
    /\ Len(history) = 3
    /\ history[1].bias # "FAILED_BREAKOUT"
    /\ history[2].bias = "FAILED_BREAKOUT"
    /\ history[3].bias = "FAILED_BREAKOUT"

\* C9: transition_in is the bias of the event before (none for the first
\* event), transition_out the bias of the event after (none for the last),
\* and the narrative is the template of the event's own bias filled with the
\* event's final duration.
C9_TransitionsAndNarrative ==
    pc = "done" =>
        \A k \in 1..Len(history) :
            /\ history[k].transition_in =
                  IF k = 1 THEN None ELSE history[k - 1].bias
            /\ history[k].transition_out =
                  IF k = Len(history) THEN None ELSE history[k + 1].bias
            /\ history[k].narrative =
                  <<history[k].bias,
                    IF history[k].bias \in {"ACCUMULATION", "DISTRIBUTION"}
                    THEN history[k].duration ELSE 0>>

\* an accumulation event of two candles next to an event of another bias
C9_Witness ==
    /\ pc = "done"
    /\ Len(history) >= 2
    /\ \E k \in 1..Len(history) :
          history[k].bias = "ACCUMULATION" /\ history[k].duration >= 2

\* the rows are complete and lie within the compression tolerance as a whole
WholeRangeWithin(rows, tolerance) ==
    /\ \A i \in 1..Len(rows) :
          {"open", "high", "low", "close", "volume"} \subseteq DOMAIN rows[i]
    /\ ~CompressionAbove(MaxOf({rows[i].high : i \in 1..Len(rows)}),
                         MinOf({rows[i].low : i \in 1..Len(rows)}), tolerance)

\* no row's volume is below 0.7 of another row's
StableVolume(rows) ==
    \A i, j \in 1..Len(rows) : 10 * rows[i].volume >= 7 * rows[j].volume

\* no down candle's volume exceeds 1.1 times the series' 90th percentile
NoDownClimax(rows) ==
    \A i \in 1..Len(rows) :
        ~DownClimax(rows[i], _percentile([k \in 1..Len(rows) |-> rows[k].volume]))

\* C10 as stated: on a 20-bar series whose whole range is within the
\* compression tolerance, with stable volume and no down-volume climax,
\* detect_zones returns at least one zone; every zone it returns has
\* zone_low < zone_high and a duration of at least the detector's
\* min_duration and the profile's min_duration, and of at most max_duration.
C10_ZoneContract ==
    pc = "done" =>
        /\ (/\ Len(data) = 20
            /\ WholeRangeWithin(data, Profile(interval).compression_tolerance)
            /\ StableVolume(data)
            /\ NoDownClimax(data)) => zones # <<>>
        /\ \A k \in 1..Len(zones) :
              /\ zones[k].zone_low < zones[k].zone_high
              /\ zones[k].duration >= svc.min_duration
              /\ zones[k].duration >= Profile(interval).min_duration
              /\ zones[k].duration <= svc.max_duration

\* C11 as stated, for the accumulation detector: every zone returned, a merged
\* one included, has score >= 3 and the confidence its score alone gives:
\* High from 6, Medium from 4, Low below.
C11_ConfidenceFromScore ==
    pc = "done" =>
        \A k \in 1..Len(zones) :
            /\ zones[k].score >= 3
            /\ zones[k].confidence =
                  IF zones[k].score >= 6 THEN "High"
                  ELSE IF zones[k].score >= 4 THEN "Medium" ELSE "Low"

\* ------------------------------------------------------------------ SpecFb
\* FailedBreakoutService.detect_failed_breakouts on series shaped as
\* build_upside_breakout_failure of test_failed_breakout_service.py builds
\* them: a base range, then a few candles that break out of it and come back.

\* the base range of the test has 25 candles
TestBase == 25

BaseShapes == {"range", "flat"}

AfterShapes == {"up_weak", "up_wick", "up_strong", "reenter", "hold", "down_weak", "rebound"}

\* a candle of the base: between 99 and 101, or without any range
BaseRow(shape, i) ==
    IF shape = "range" THEN Bar(100000, 101000, 99000, 100500, 1000, i)
    ELSE Bar(100000, 100000, 100000, 100000, 1000, i)

\* a candle after the base
AfterRow(shape, i) ==
    CASE shape = "up_weak" -> Bar(100900, 103000, 100800, 102000, 900, i)
      [] shape = "up_wick" -> Bar(101200, 103000, 101000, 101300, 1500, i)
      [] shape = "up_strong" -> Bar(101000, 102600, 100900, 102500, 2000, i)
      [] shape = "reenter" -> Bar(101500, 101600, 100400, 100600, 1100, i)
      [] shape = "hold" -> Bar(101020, 101100, 101000, 101010, 1000, i)
      [] shape = "down_weak" -> Bar(99100, 99200, 97000, 98000, 900, i)
      [] OTHER -> Bar(98500, 99600, 98400, 99400, 1100, i)

\* base candles of one shape, then the candles of `after`
FbSeries(base, shape, after) ==
    [i \in 1..(base + Len(after)) |->
        IF i <= base THEN BaseRow(shape, i) ELSE AfterRow(after[i - base], i)]

CallDetectFb ==
    /\ pc = "idle"
    /\ svc' = [lookback |-> fb_lookback, base_window |-> base_window,
               min_breakout_range_pct |-> min_breakout_range_pct,
               reentry_window |-> reentry_window]
    /\ \E base \in {TestBase} \cup ((MaxBase - BaseSpan)..MaxBase) :
         \E shape \in BaseShapes :
          \E after \in SeqsUpTo(AfterShapes, MaxAfter) :
             data' = FbSeries(base, shape, after)
    /\ pc' = "called"
    /\ UNCHANGED <<ohlcOk, candles, argsGiven, accArg, distArg, prev, accZ, distZ,
                   failZ, detFailed, raisedBy, history, state, resolved, interval,
                   zones, indicators, fbEvents,
                   scoreVars, otherVars>>

DetectFailedBreakouts ==
    /\ pc = "called"
    /\ fbEvents' = FailedBreakoutDetect(svc, data)
    /\ pc' = "done"
    /\ UNCHANGED <<ohlcOk, candles, argsGiven, accArg, distArg, prev, accZ, distZ,
                   failZ, detFailed, raisedBy, history, state, resolved, svc,
                   interval, data, zones, indicators,
                   scoreVars, otherVars>>

NextFb == CallDetectFb \/ DetectFailedBreakouts

SpecFb == Init /\ [][NextFb]_vars

\* ---------------------------------------------------------------- SpecDist
\* the candles and the profile of the detect_zones call
DistCandles == DistNormalize(data)

DistProfileOfCall == DistProfile(interval)

\* the close-to-close advance over the precondition window is below the
\* prior-advance threshold
PriorAdvanceBelow ==
    LET n == Len(DistCandles)
        price_start == DistCandles[n - DistProfileOfCall.precondition_window + 1].close
    IN  /\ price_start > 0
        /\ 100 * (DistCandles[n].close - price_start)
               < prior_advance_threshold * price_start

\* the latest close is below the long-term moving average handed in
BelowLongTermMA ==
    indicators # 0 /\ DistCandles[Len(DistCandles)].close < indicators

\* the windows the scan of detect_zones would accept, as <<end_idx, duration>>
AcceptedIn(cs, profile) ==
    {w \in (1..Len(cs)) \X (profile.min_duration..svc.max_duration) :
        /\ w[1] > Len(cs) - svc.lookback
        /\ LET zone == DistWindow(cs, w[1], w[2], profile.compression_tolerance)
           IN  ~zone.exc /\ zone.val # <<>>}

AcceptedWindows == AcceptedIn(DistCandles, DistProfileOfCall)

\* C12: detect_zones of the distribution detector returns no zone whenever a
\* precondition fails: the advance over the profile's precondition window is
\* below the threshold, or the latest close is below the long-term average;
\* however compressed the later candles are.
C12_NoZoneWithoutPrecondition ==
    (/\ pc = "done"
     /\ Len(DistCandles) >= DistProfileOfCall.precondition_window
     /\ (PriorAdvanceBelow \/ BelowLongTermMA))
        => zones = <<>>

\* a flat series (0% from the start of the precondition window to the latest
\* close) whose last candles form a range the scan would have accepted
C12_Witness ==
    /\ pc = "done"
    /\ Len(DistCandles) >= DistProfileOfCall.precondition_window
    /\ indicators = 0
    /\ DistCandles[Len(DistCandles)].close > 0
    /\ DistCandles[Len(DistCandles)].close
          = DistCandles[Len(DistCandles) - DistProfileOfCall.precondition_window + 1].close
    /\ AcceptedWindows # {}
    /\ zones = <<>>

\* C13: detect_zones of the distribution detector returns at most one zone,
\* the most recent accepted one: no window the scan accepts ends later than
\* it, and none that ends with it is longer.
C13_LatestLongestZone ==
    pc = "done" =>
        /\ Len(zones) <= 1
        /\ zones # <<>> =>
              \A w \in AcceptedWindows :
                  /\ DistCandles[w[1]].time <= zones[1].end_time
                  /\ DistCandles[w[1]].time = zones[1].end_time
                        => w[2] <= zones[1].duration

\* a zone is returned although the scan accepted a window that ends earlier
\* and a shorter window that ends with it
C13_Witness ==
    /\ pc = "done"
    /\ zones # <<>>
    /\ \E w \in AcceptedWindows : DistCandles[w[1]].time < zones[1].end_time
    /\ \E w \in AcceptedWindows :
          /\ DistCandles[w[1]].time = zones[1].end_time
          /\ w[2] < zones[1].duration

\* the candles with upper-wick dominance in a window
WickDominant(window) ==
    {i \in 1..Len(window) :
        /\ window[i].high > window[i].low
        /\ 100 * (window[i].high - MaxOpenClose(window[i]))
              >= upper_wick_ratio * (window[i].high - window[i].low)}

\* one of the last 3 closes is more than 0.2% above the highest high
ClosesAboveZone(window) ==
    \E i \in 1..Len(window) :
        /\ i > Len(window) - 3
        /\ \A j \in 1..Len(window) : 1000 * window[i].close > UpsideMargin * window[j].high

\* C14: a window the distribution detector accepts holds two or more candles
\* with upper-wick dominance and none of its last 3 closes is more than 0.2%
\* above its high; every zone returned is such a window.  (A series shorter
\* than the precondition window is never scanned.)
C14_WicksAndNoUpsideClose ==
    (pc = "done" /\ Len(data) >= DistProfileOfCall.precondition_window) =>
        LET cs == DistCandles
            accepted == AcceptedIn(cs, DistProfileOfCall)
        IN  /\ \A w \in accepted :
                  LET window == Slice(cs, w[1] - w[2], w[1])
                  IN  /\ Cardinality(WickDominant(window)) >= 2
                      /\ ~ClosesAboveZone(window)
            /\ \A k \in 1..Len(zones) :
                  \E w \in accepted :
                      /\ zones[k].duration = w[2]
                      /\ zones[k].end_time = cs[w[1]].time
                      /\ zones[k].start_time = cs[w[1] - w[2] + 1].time

\* a zone is returned, and a later window of the scan with two wick-dominant
\* candles was rejected for a close above its high
C14_Witness ==
    /\ pc = "done"
    /\ zones # <<>>
    /\ LET cs == DistCandles
       IN  \E e \in 1..Len(cs) :
            \E d \in DistProfileOfCall.min_duration..svc.max_duration :
               /\ e - d > 0
               /\ cs[e].time > zones[1].end_time
               /\ Cardinality(WickDominant(Slice(cs, e - d, e))) >= 2
               /\ ClosesAboveZone(Slice(cs, e - d, e))
               /\ <<e, d>> \notin AcceptedIn(cs, DistProfileOfCall)

\* ------------------------------------------------------------------ SpecFb
\* what the detect_failed_breakouts call scans
FbCall == FbBase(FbNormalize(data), svc)

EventsOf(direction) == SelectSeq(fbEvents, LAMBDA e : e.direction = direction)

\* the events of one direction against the latest close beyond its level
EventFollowsSignals(direction) ==
    LET b == FbCall
        idx == BreakoutIdx(direction, b, svc)
        f == Confirmations(direction, idx, b, svc)
        true == SignalCount(f)
        evs == EventsOf(direction)
    IN  /\ Len(evs) <= 1
        /\ evs # <<>> <=> (idx # 0 /\ true >= 2)
        /\ evs # <<>> =>
              /\ evs[1].breakout_time = b.recent[idx].time
              /\ evs[1].confidence =
                    (IF true \in {4, 5} THEN "High" ELSE IF true = 3 THEN "Medium" ELSE "Low")
              /\ evs[1].failure_type =
                    (IF f.wick_reject /\ f.reentry THEN "immediate_rejection"
                     ELSE IF f.counter_candle /\ f.reentry THEN "trap_reversal"
                     ELSE IF f.vol_fail /\ f.no_follow_through THEN "low_volume_fakeout"
                     ELSE "generic_failure")

BreakoutThenReentry ==
    LET cs == FbNormalize(data)
        n == Len(cs)
        base == SubSeq(cs, 1, n - 2)
        top == MaxOf({base[i].high : i \in 1..Len(base)})
        bottom == MinOf({base[i].low : i \in 1..Len(base)})
    IN  /\ n >= 3
        /\ top > bottom
        /\ cs[n - 1].close > top \/ cs[n - 1].close < bottom
        /\ cs[n - 1].volume * Len(base) < SumVolume(base, Len(base))
        /\ bottom < cs[n].close /\ cs[n].close < top

\* C16: on a base range followed by a breakout candle of below-average volume
\* and a candle that closes back inside the range, detect_failed_breakouts
\* returns an event, each event with direction up or down, a failure_type and
\* a context list that is not empty.
C16_ReentryAfterWeakBreakoutDetected ==
    (pc = "done" /\ BreakoutThenReentry) =>
        /\ fbEvents # <<>>
        /\ \A k \in 1..Len(fbEvents) :
              /\ fbEvents[k].direction \in {"up", "down"}
              /\ fbEvents[k].failure_type # ""
              /\ fbEvents[k].context # <<>>

\* ----------------------------------------------------------- normalization
\* the candle sequences the three detectors work on, given the rows of the call
NormalizedByEach == {_normalize(data), DistNormalize(data), FbNormalize(data)}

\* C17: the candle sequence each detector works on after normalization is
\* chronologically sorted and holds each timestamp at most once.
C17_SortedAndDeduplicated ==
    pc = "done" =>
        \A cs \in NormalizedByEach :
            \A i \in 1..Len(cs) : \A j \in 1..Len(cs) :
                i < j => cs[i].time < cs[j].time

\* the lowercase name of each field name the normalizers know
LowerOf ==
    [Open |-> "open", High |-> "high", Low |-> "low", Close |-> "close",
     Volume |-> "volume", open |-> "open", high |-> "high", low |-> "low",
     close |-> "close", volume |-> "volume", date |-> "date", time |-> "time",
     timestamp |-> "timestamp"]

\* the same rows given with lowercase keys
Lowercased(rows) ==
    [i \in 1..Len(rows) |->
        [k \in {LowerOf[x] : x \in DOMAIN rows[i]} |->
            rows[i][CHOOSE x \in DOMAIN rows[i] : LowerOf[x] = k]]]

\* C18: a series given with capitalised price and volume keys yields the same
\* canonical candles, and the same zones, as the same series given with
\* lowercase keys (here for the distribution detector).
C18_AlternateNamesSameResult ==
    pc = "done" =>
        /\ DistNormalize(data) = DistNormalize(Lowercased(data))
        /\ zones = DistributionDetectZones(svc, Lowercased(data), interval, indicators)

\* ---------------------------------------------------------------- SpecStab
\* RegimeStabilityService.calculate_stability_metrics on histories as
\* generate_history builds them: events with a bias and a duration of one
\* candle or more.

\* durations of an event: a single candle, a range shorter than the cap of
\* 50 candles, and one beyond it
EventDurations == {1, 20, 60}

RegimeEvents == [bias : Biases, duration : EventDurations]

CallStability ==
    /\ pc = "idle"
    /\ history' \in SeqsUpTo(RegimeEvents, MaxEvents)
    /\ current' \in Biases \cup {"accumulation"}
    /\ pc' = "called"
    /\ UNCHANGED <<ohlcOk, candles, argsGiven, accArg, distArg, prev, accZ, distZ,
                   failZ, detFailed, raisedBy, state, resolved, svc, interval, data,
                   zones, indicators, fbEvents, metrics, scores, composite,
                   otherVars>>

CalculateStabilityMetrics ==
    /\ pc = "called"
    /\ metrics' \in calculate_stability_metrics(history, current)
    /\ pc' = "done"
    /\ UNCHANGED <<ohlcOk, candles, argsGiven, accArg, distArg, prev, accZ, distZ,
                   failZ, detFailed, raisedBy, history, state, resolved, svc,
                   interval, data, zones, indicators, fbEvents, current, scores,
                   composite, otherVars>>

NextStab == CallStability \/ CalculateStabilityMetrics

SpecStab == Init /\ [][NextStab]_vars

\* the events of the history, the sum of their durations, and the events
\* that are no failed breakout
EventCount == Len(history)

DurationSum == TotalDuration(history, Len(history))

Persistent == Cardinality({k \in 1..Len(history) : history[k].bias # "FAILED_BREAKOUT"})

\* x, in units of 1 / scale, is n / d to the digits reported
IsRounded(x, n, d, scale) == 2 * Abs(x * d - n * scale) <= d

\* C19: current_duration is the last event's duration if its bias matches
\* the current bias, else 0; volatility is (events - 1) / sum of durations;
\* persistence is the fraction of events that are no FAILED_BREAKOUT;
\* stability_score is 0.5 * min(duration / 50, 1) * 100
\* + 0.3 * (1 - min(volatility / 0.1, 1)) * 100 + 0.2 * persistence * 100
\* and lies in [0, 100], 0 for an empty history; each to the digits reported.
C19_StabilityMetrics ==
    pc = "done" =>
        IF history = <<>> THEN metrics.stability_score = 0
        ELSE LET d == metrics.current_duration
                 \* 100 * min(d / 50, 1), and 100 * (1 - min(volatility / 0.1, 1))
                 \* times DurationSum
                 durationPart == IF d >= 50 THEN 100 ELSE 2 * d
                 volatilityPart ==
                     IF 10 * (EventCount - 1) >= DurationSum THEN 0
                     ELSE 100 * (DurationSum - 10 * (EventCount - 1))
             IN  /\ d = IF Upper(history[EventCount].bias) = Upper(current)
                        THEN history[EventCount].duration ELSE 0
                 /\ IsRounded(metrics.regime_volatility, EventCount - 1, DurationSum, 1000)
                 /\ IsRounded(metrics.persistence_rate, Persistent, EventCount, 1000)
                 /\ IsRounded(metrics.stability_score,
                              5 * durationPart * DurationSum * EventCount
                                 + 3 * volatilityPart * EventCount
                                 + 2 * 100 * Persistent * DurationSum,
                              10 * DurationSum * EventCount, 10)
                 /\ 0 <= metrics.stability_score /\ metrics.stability_score <= 1000

\* a history of three events with a failed breakout among them, whose last
\* event is matched by a current regime written in lower case
C19_Witness ==
    /\ pc = "done"
    /\ EventCount = 3
    /\ Persistent = 2
    /\ current = "accumulation"
    /\ metrics.current_duration = 20
    /\ metrics.regime_volatility > 0
    /\ metrics.stability_score > 0

\* ---------------------------------------------------------------- SpecComp
\* CompositeScoringService.calculate_composite_score on scores around the
\* ends of the 0..100 range, beyond them, and in the middle of it.
ScoreValues ==
    ((ScoreFloor - MaxExcess)..(ScoreFloor + MaxExcess))
        \cup {333, 500}
        \cup ((ScoreCeiling - MaxExcess)..(ScoreCeiling + MaxExcess))

CallComposite ==
    /\ pc = "idle"
    /\ scores' \in ScoreValues \X ScoreValues \X ScoreValues
    /\ pc' = "called"
    /\ UNCHANGED <<ohlcOk, candles, argsGiven, accArg, distArg, prev, accZ, distZ,
                   failZ, detFailed, raisedBy, history, state, resolved, svc,
                   interval, data, zones, indicators, fbEvents, current, metrics,
                   composite, otherVars>>

CalculateCompositeScore ==
    /\ pc = "called"
    /\ composite' \in calculate_composite_score(scores[1], scores[2], scores[3])
    /\ pc' = "done"
    /\ UNCHANGED <<ohlcOk, candles, argsGiven, accArg, distArg, prev, accZ, distZ,
                   failZ, detFailed, raisedBy, history, state, resolved, svc,
                   interval, data, zones, indicators, fbEvents, current, metrics,
                   scores, otherVars>>

NextComp == CallComposite \/ CalculateCompositeScore

SpecComp == Init /\ [][NextComp]_vars

\* a score brought into [0, 100]
Within(score) == IF score < 0 THEN 0 ELSE IF score > 1000 THEN 1000 ELSE score

\* C20: the value is 0.40 * t + 0.40 * f + 0.20 * s of the inputs brought into
\* [0, 100], to the one decimal reported; it lies in [0, 100] for any inputs;
\* it is 100 for (100, 100, 100) and within [45, 55] for (50, 50, 50).
C20_CompositeValue ==
    pc = "done" =>
        /\ IsRounded(composite.value,
                     40 * Within(scores[1]) + 40 * Within(scores[2])
                        + 20 * Within(scores[3]),
                     1000, 10)
        /\ 0 <= composite.value /\ composite.value <= 1000
        /\ scores = <<1000, 1000, 1000>> => composite.value = 1000
        /\ scores = <<500, 500, 500>> => (450 <= composite.value /\ composite.value <= 550)

\* a negative technical score and a fundamental score above 100 are taken as
\* 0 and 100: with a stability score of 50 the value is 50
C20_Witness ==
    /\ pc = "done"
    /\ scores[1] < 0
    /\ scores[2] > 1000
    /\ scores[3] = 500
    /\ composite.value = 500

\* the composite value before rounding, in thousandths of a tenth
Weighted ==
    WeightTechnical * Within(scores[1]) + WeightFundamental * Within(scores[2])
        + WeightStability * Within(scores[3])

\* C21: the band is STRONG for every composite value >= 70, WEAK for every
\* value < 40 and NEUTRAL for every value in between, non-integer values
\* between 39 and 40 and between 69 and 70 included.
C21_BandOfEveryValue ==
    pc = "done" =>
        composite.band =
            IF Weighted >= StrongFrom * 100 * ScoreScale THEN "STRONG"
            ELSE IF Weighted < NeutralFrom * 100 * ScoreScale THEN "WEAK"
            ELSE "NEUTRAL"

\* ---------------------------------------------------------------- SpecConf
\* ConfluenceService.get_confluence_state on the regime names in capitals,
\* in small letters and capitalised, on other words, on None and on a number.
Styles == {"upper", "lower", "title"}

RegimeArgs(members) ==
    {Str(w, st) : w \in members \cup {"BULLISH", "UNKNOWN"}, st \in Styles}
        \cup {NoneArg, NumberArg}

CallConfluence ==
    /\ pc = "idle"
    /\ technical_regime' \in RegimeArgs(TechnicalRegime)
    /\ fundamental_regime' \in RegimeArgs(FundamentalRegime)
    /\ pc' = "called"
    /\ UNCHANGED <<ohlcOk, candles, argsGiven, accArg, distArg, prev, accZ, distZ,
                   failZ, detFailed, raisedBy, history, state, resolved, svc,
                   interval, data, zones, indicators, fbEvents, scoreVars,
                   confluence, riskVars,
                   scanVars>>

GetConfluenceState ==
    /\ pc = "called"
    /\ LET out == get_confluence_state(technical_regime, fundamental_regime)
       IN  /\ confluence' = IF out.raised = "" THEN out.val ELSE confluence
           /\ raisedBy' = {d \in {"get_confluence_state"} : out.raised # ""}
    /\ pc' = "done"
    /\ UNCHANGED <<ohlcOk, candles, argsGiven, accArg, distArg, prev, accZ, distZ,
                   failZ, detFailed, history, state, resolved, svc,
                   interval, data, zones, indicators, fbEvents, scoreVars,
                   technical_regime, fundamental_regime, riskVars,
                   scanVars>>

NextConf == CallConfluence \/ GetConfluenceState

SpecConf == Init /\ [][NextConf]_vars

\* the argument names a member of the enumeration, in any letter case
Names(arg, members) == arg.kind = "str" /\ arg.word \in members

\* C22: for each of the 4 x 3 pairs, in any letter case, the call returns the
\* pair's matrix entry (ACCUMULATION x STRONG: Aligned Strength, risk LOW);
\* for any other input, None and non-strings included, it returns the
\* default Indecision / LOW / MEDIUM; it never raises.
C22_TotalLookup ==
    pc = "done" =>
        /\ raisedBy = {}
        /\ IF Names(technical_regime, TechnicalRegime)
                /\ Names(fundamental_regime, FundamentalRegime)
           THEN LET entry == CONFLUENCE_MATRIX[<<technical_regime.word,
                                                 fundamental_regime.word>>]
                IN  /\ confluence.state = entry.label
                    /\ confluence.confidence = entry.confidence
                    /\ confluence.risk_level = entry.risk_level
                    /\ confluence.technical_regime = technical_regime.word
                    /\ confluence.fundamental_regime = fundamental_regime.word
                    /\ (technical_regime.word = "ACCUMULATION"
                            /\ fundamental_regime.word = "STRONG")
                        => (confluence.state = "Aligned Strength"
                                /\ confluence.risk_level = "LOW")
           ELSE /\ confluence.state = "Indecision"
                /\ confluence.confidence = "LOW"
                /\ confluence.risk_level = "MEDIUM"
                /\ confluence = _get_default_state

\* DISTRIBUTION with "Weak" gives the entry of (DISTRIBUTION, WEAK)
C22_Witness ==
    /\ pc = "done"
    /\ technical_regime = Str("DISTRIBUTION", "upper")
    /\ fundamental_regime = Str("WEAK", "title")
    /\ confluence.state = "Aligned Weakness"
    /\ confluence.risk_level = "HIGH"

\* ---------------------------------------------------------------- SpecRisk
\* RiskConstraintService.assess_risk_constraints on metrics at, just below
\* and just above each threshold, on the values of the repository's test,
\* and on dicts that lack a key.
Around(x) == (x - MaxOffset)..(x + MaxOffset)

\* a key of a dict: absent (the value is then unused), or present with v
Entries(values) == {<<FALSE, 0>>} \cup {<<TRUE, v>> : v \in values}

RatioValues == {0, 400} \cup Around(HealthyBelow) \cup Around(HighIncomeFrom)

RoceValues == {150} \cup Around(LowRoce) \cup Around(CostOfCapital)

DeltaValues == {0, -150} \cup Around(-MildDelta) \cup Around(-SevereDelta)

KeysOf(names, given) == {names[i] : i \in {j \in 1..Len(names) : given[j]}}

FundamentalInputs ==
    {[keys |-> KeysOf(<<"other_income_ratio", "roce", "net_margin_yoy_delta">>,
                      <<r[1], o[1], d[1]>>),
      other_income_ratio |-> r[2], roce |-> o[2], net_margin_yoy_delta |-> d[2]] :
        r \in Entries(RatioValues), o \in Entries(RoceValues), d \in Entries(DeltaValues)}

TechnicalInputs ==
    {[keys |-> {"regime", "confidence"}, regime |-> Str(b, st), confidence |-> Str(c, "title")] :
        b \in Biases, st \in {"upper", "lower"}, c \in {"LOW", "MEDIUM", "HIGH"}}
    \cup {[keys |-> {"regime"}, regime |-> Str(b, "upper"), confidence |-> Str("", "upper")] :
        b \in Biases}
    \cup {[keys |-> {"confidence"}, regime |-> Str("", "upper"), confidence |-> Str(c, "title")] :
        c \in {"LOW", "MEDIUM", "HIGH"}}
    \cup {NoTechnicals}

CallAssess ==
    /\ pc = "idle"
    /\ fundamental_data' \in FundamentalInputs
    /\ technical_data' \in TechnicalInputs
    /\ pc' = "called"
    /\ UNCHANGED <<ohlcOk, candles, argsGiven, accArg, distArg, prev, accZ, distZ,
                   failZ, detFailed, raisedBy, history, state, resolved, svc,
                   interval, data, zones, indicators, fbEvents, scoreVars, confVars,
                   constraints, summary,
                   scanVars>>

AssessRiskConstraints ==
    /\ pc = "called"
    /\ constraints' = assess_risk_constraints(fundamental_data, technical_data)
    /\ pc' = "done"
    /\ UNCHANGED <<ohlcOk, candles, argsGiven, accArg, distArg, prev, accZ, distZ,
                   failZ, detFailed, raisedBy, history, state, resolved, svc,
                   interval, data, zones, indicators, fbEvents, scoreVars, confVars,
                   fundamental_data, technical_data, summary,
                   scanVars>>

NextRisk == CallAssess \/ AssessRiskConstraints

SpecRisk == Init /\ [][NextRisk]_vars

\* the severities of the emitted constraints of a dimension
SeveritiesOf(dimension) ==
    {constraints[i].severity :
        i \in {j \in 1..Len(constraints) : constraints[j].dimension = dimension}}

\* the dimension has exactly one constraint, of that severity
Emits(dimension, severity) ==
    /\ SeveritiesOf(dimension) = {severity}
    /\ Cardinality({i \in 1..Len(constraints) : constraints[i].dimension = dimension}) = 1

Silent(dimension) == \A i \in 1..Len(constraints) : constraints[i].dimension # dimension

\* the value of a metric, 0 when the dict lacks it
Metric(key) == IF key \in fundamental_data.keys THEN fundamental_data[key] ELSE 0

\* the regime and the confidence of technical_data, whatever their case
RegimeIs(word) == "regime" \in technical_data.keys /\ technical_data.regime.word = word

ConfidenceIs(word) ==
    "confidence" \in technical_data.keys /\ technical_data.confidence.word = word

Dimensions ==
    {"Earnings Quality", "Capital Efficiency", "Price Structure", "Margin Pressure"}

ConstraintLists ==
    {list \in SeqsUpTo([dimension : Dimensions, severity : {"MEDIUM", "HIGH"}],
                       MaxConstraints) :
        \A i \in 1..Len(list) : \A j \in 1..Len(list) :
            list[i].dimension = list[j].dimension => i = j}

CallSummary ==
    /\ pc = "idle"
    /\ constraints' \in ConstraintLists
    /\ pc' = "called"
    /\ UNCHANGED <<ohlcOk, candles, argsGiven, accArg, distArg, prev, accZ, distZ,
                   failZ, detFailed, raisedBy, history, state, resolved, svc,
                   interval, data, zones, indicators, fbEvents, scoreVars, confVars,
                   fundamental_data, technical_data, summary,
                   scanVars>>

GetRiskSummary ==
    /\ pc = "called"
    /\ summary' = get_risk_summary(constraints)
    /\ pc' = "done"
    /\ UNCHANGED <<ohlcOk, candles, argsGiven, accArg, distArg, prev, accZ, distZ,
                   failZ, detFailed, raisedBy, history, state, resolved, svc,
                   interval, data, zones, indicators, fbEvents, scoreVars, confVars,
                   fundamental_data, technical_data, constraints,
                   scanVars>>

NextSummary == CallSummary \/ GetRiskSummary

SpecSummary == Init /\ [][NextSummary]_vars

\* the constraints of the list that have the severity
Having(severity) == {i \in DOMAIN constraints : constraints[i].severity = severity}

\* C24: overall_risk is HIGH with 2 or more HIGH constraints, MEDIUM-HIGH
\* with exactly 1, MEDIUM with none and 2 or more MEDIUM, LOW-MEDIUM with none
\* and exactly 1 MEDIUM, LOW for the empty list, whatever the order of the
\* list; the reported counts are the numbers of constraints of each severity.
C24_SummaryByCounts ==
    pc = "done" =>
        LET highs == Cardinality(Having("HIGH"))
            mediums == Cardinality(Having("MEDIUM"))
        IN  /\ summary.high_severity_count = highs
            /\ summary.medium_severity_count = mediums
            /\ summary.constraint_count = Len(constraints)
            /\ highs >= 2 => summary.overall_risk = "HIGH"
            /\ highs = 1 => summary.overall_risk = "MEDIUM-HIGH"
            /\ (highs = 0 /\ mediums >= 2) => summary.overall_risk = "MEDIUM"
            /\ (highs = 0 /\ mediums = 1) => summary.overall_risk = "LOW-MEDIUM"
            /\ constraints = <<>> => summary.overall_risk = "LOW"

\* three MEDIUM constraints and no HIGH one: MEDIUM
C24_Witness ==
    /\ pc = "done"
    /\ Len(constraints) = 3
    /\ Cardinality(Having("MEDIUM")) = 3
    /\ summary.overall_risk = "MEDIUM"
    /\ summary.medium_severity_count = 3

\* ----------------------------------------------------------------- SpecSeq
\* Successive evaluate_structure calls of one client: the bias a call
\* returned is kept and handed to the next call as its previous_bias.
KeepBias ==
    /\ pc = "done"
    /\ prev' = state.bias
    /\ ohlcOk' = TRUE
    /\ candles' = <<>>
    /\ argsGiven' = FALSE
    /\ accArg' = <<>>
    /\ distArg' = <<>>
    /\ accZ' = <<>>
    /\ distZ' = <<>>
    /\ failZ' = <<>>
    /\ detFailed' = {}
    /\ raisedBy' = {}
    /\ history' = <<>>
    /\ state' = NoState
    /\ pc' = "kept"
    /\ UNCHANGED accVars
    /\ UNCHANGED resolved

CallEvaluateNext ==
    /\ pc = "kept"
    /\ \/ /\ ohlcOk' = FALSE
          /\ candles' = <<>>
       \/ /\ ohlcOk' = TRUE
          /\ candles' \in SeqsUpTo(EvalRowKinds, EvalMaxCandles)
    /\ \/ /\ argsGiven' = FALSE
          /\ accArg' = <<>>
          /\ distArg' = <<>>
       \/ /\ argsGiven' = TRUE
          /\ \E na \in 0..EvalMaxZones :
              /\ accArg' \in SeqsOfLen(ArgZoneSet(Len(candles'), {"Low", "High"}), na)
              /\ distArg' \in SeqsUpTo(ArgZoneSet(Len(candles'), {"Medium"}),
                                       EvalMaxZones - na)
    /\ pc' = "called"
    /\ UNCHANGED accVars
    /\ UNCHANGED <<prev, accZ, distZ, failZ, detFailed, raisedBy, history, state, resolved>>

NextSeq == CallEvaluate \/ EvaluateStructure \/ KeepBias \/ CallEvaluateNext

SpecSeq == Init /\ [][NextSeq]_vars

\* C25: a call reports a transition exactly when a previous bias is supplied,
\* differs from the bias of the returned state, and that bias is not NEUTRAL:
\* then transition is {from: previous_bias, to: bias} and the narration names
\* both; otherwise transition and transition_narration are absent.
C25_TransitionOnShift ==
    pc = "done" =>
        IF prev # None /\ prev # state.bias /\ state.bias # "NEUTRAL"
        THEN /\ state.transition = [from |-> prev, to |-> state.bias]
             /\ state.transition_narration = <<Capitalize(prev), Capitalize(state.bias)>>
        ELSE /\ state.transition = NoTransition
             /\ state.transition_narration = NoNarration

\* the call before returned DISTRIBUTION, this one FAILED_BREAKOUT
C25_Witness ==
    /\ pc = "done"
    /\ prev = "DISTRIBUTION"
    /\ state.bias = "FAILED_BREAKOUT"
    /\ state.transition = [from |-> "DISTRIBUTION", to |-> "FAILED_BREAKOUT"]
    /\ state.transition_narration = <<"Distribution", "Failed_breakout">>

\* ---------------------------------------------------------------- SpecCtor
\* An AccumulationZoneService is constructed with a given min_duration and
\* max_duration, then detect_zones is called on a daily series of MaxBars rows.

\* __init__ stores its arguments: it tests none of them and raises nothing
__init__(min_dur, max_dur, look) ==
    Ok([min_duration |-> min_dur, max_duration |-> max_dur, lookback |-> look])

\* non-positive durations a caller may pass
InvalidDurations == {-1, 0}

Construct ==
    /\ pc = "idle"
    /\ \E m \in InvalidDurations \cup {min_duration} :
         \E x \in InvalidDurations \cup {max_duration} :
           LET built == __init__(m, x, lookback)
           IN  /\ svc' = IF built.exc THEN svc ELSE built.val
               /\ raisedBy' = {d \in {"__init__"} : built.exc}
               /\ pc' = IF built.exc THEN "done" ELSE "built"
    /\ UNCHANGED <<ohlcOk, candles, argsGiven, accArg, distArg, prev, accZ, distZ,
                   failZ, detFailed, history, state, resolved, interval, data, zones,
                   indicators, fbEvents, scoreVars, otherVars>>

CallDetectBuilt ==
    /\ pc = "built"
    /\ interval' = "day"
    /\ \E p \in 0..MaxBars :
         \E a \in Shapes :
           \E b \in Shapes :
             data' = Series(MaxBars, p, a, b, FALSE)
    /\ pc' = "called"
    /\ UNCHANGED <<ohlcOk, candles, argsGiven, accArg, distArg, prev, accZ, distZ,
                   failZ, detFailed, raisedBy, history, state, resolved, svc, zones,
                   indicators, fbEvents, scoreVars, otherVars>>

NextCtor == Construct \/ CallDetectBuilt \/ DetectZones

SpecCtor == Init /\ [][NextCtor]_vars

\* C26: a detector constructed with an invalid configuration, such as a
\* non-positive min_duration, fails at construction: no detector object with
\* such a configuration exists, so no detect call of one returns an empty
\* result or works with another minimum duration.
C26_InvalidConfigurationFails ==
    pc \in {"built", "called", "done"} =>
        \/ "__init__" \in raisedBy
        \/ (svc.min_duration >= 1 /\ svc.max_duration >= svc.min_duration)

\* -------------------------------------------------------- per-candle slices
\* the zones whose [start_time, end_time] holds the timestamp t
Containing(list, t) ==
    SelectSeq(list, LAMBDA z : z.start_time <= t /\ t <= z.end_time)

\* the failed breakouts whose span from breakout_time to failure_time holds t
ContainingSpans(list, t) ==
    SelectSeq(list, LAMBDA f : f.breakout_time <= t /\ t <= f.failure_time)

\* C27: for every candle of the series there is a slice at that candle, and its
\* bias and confidence are resolve_bias of exactly the accumulation zones,
\* distribution zones and failed-breakout spans that contain the candle's
\* timestamp (candle i is stamped i); the event the slice went into has that
\* bias. So a candle inside an accumulation zone and a failed-breakout span
\* is FAILED_BREAKOUT and a candle inside no interval is NEUTRAL.
C27_SliceOfEveryCandle ==
    pc = "done" =>
        LET raw == RawOfCall
        IN  \A i \in 1..Len(candles) :
              \E j \in 1..Len(raw) :
                LET r == resolve_bias(Containing(accZ, i), Containing(distZ, i),
                                      ContainingSpans(failZ, i))
                IN  /\ raw[j].index = i
                    /\ raw[j].time = i
                    /\ raw[j].bias = r.bias
                    /\ raw[j].confidence = r.confidence
                    /\ history[EventOf(history, j)].bias = r.bias
                    /\ (Containing(accZ, i) # <<>> /\ ContainingSpans(failZ, i) # <<>>)
                          => raw[j].bias = "FAILED_BREAKOUT"
                    /\ (Containing(accZ, i) = <<>> /\ Containing(distZ, i) = <<>>
                            /\ ContainingSpans(failZ, i) = <<>>)
                          => raw[j].bias = "NEUTRAL"

\* ---------------------------------------------------------------- SpecScan
\* AccumulationZoneService.detect_zones with the while loop of
\* _detect_zones_formalized taken one pass at a time, on series of MaxBars rows.

\* mutant: the first passing duration is kept
BestDuration_first(passing) == MinOf(passing)

\* the for loop overwrites best_zone at each passing duration: the last, and
\* so the largest, passing duration is the one kept
BestDuration(passing) == MaxOf(passing)

\* the durations the for loop of a pass at idx tries and finds passing
PassingAt(cs, start, max_dur, profile) ==
    {dur \in profile.min_duration..max_dur :
        /\ start + dur <= Len(cs)
        /\ WindowZone(cs, start, dur, profile.compression_tolerance) # <<>>}

ScanVarsUnchanged == UNCHANGED <<scanIdx, scanCandidates, taken>>

CallScan ==
    /\ pc = "idle"
    /\ \E x \in {max_duration, min_duration + 2} :
          svc' = [min_duration |-> min_duration, max_duration |-> x, lookback |-> lookback]
    /\ interval' \in {"day", "week"}
    /\ \E p \in 0..MaxBars :
         \E a \in Shapes :
          \E b \in Shapes :
             data' = Series(MaxBars, p, a, b, FALSE)
    /\ pc' = "called"
    /\ UNCHANGED <<ohlcOk, candles, argsGiven, accArg, distArg, prev, accZ, distZ,
                   failZ, detFailed, raisedBy, history, state, resolved, zones,
                   indicators, fbEvents, scoreVars, confVars, riskVars, scanVars>>

\* detect_zones up to the first test of the while loop
StartScan ==
    /\ pc = "called"
    /\ LET cs == _normalize(data)
           n == Len(cs)
       IN  IF n < Profile(interval).min_duration + 2
           THEN /\ zones' = <<>>
                /\ pc' = "done"
                /\ ScanVarsUnchanged
           ELSE /\ scanIdx' = IF n - svc.lookback > 0 THEN n - svc.lookback ELSE 0
                /\ scanCandidates' = <<>>
                /\ taken' = <<>>
                /\ pc' = "scan"
                /\ UNCHANGED zones
    /\ UNCHANGED <<ohlcOk, candles, argsGiven, accArg, distArg, prev, accZ, distZ,
                   failZ, detFailed, raisedBy, history, state, resolved, svc,
                   interval, data, indicators, fbEvents, scoreVars, confVars,
                   riskVars>>

\* the test of the while loop: a window of the shortest duration still fits
ScanGoesOn == scanIdx + Profile(interval).min_duration <= Len(_normalize(data))

\* one pass of the while loop
ScanStep ==
    /\ pc = "scan"
    /\ ScanGoesOn
    /\ LET cs == _normalize(data)
           profile == Profile(interval)
           passing == PassingAt(cs, scanIdx, svc.max_duration, profile)
       IN  IF passing = {}
           THEN /\ scanIdx' = scanIdx + 1
                /\ UNCHANGED <<scanCandidates, taken>>
           ELSE LET best_zone == WindowZone(cs, scanIdx, BestDuration(passing),
                                            profile.compression_tolerance)[1]
                IN  /\ scanCandidates' = Append(scanCandidates, best_zone)
                    /\ taken' = Append(taken, [start |-> scanIdx,
                                               duration |-> best_zone.duration])
                    /\ scanIdx' = scanIdx + best_zone.duration
    /\ UNCHANGED <<pc, ohlcOk, candles, argsGiven, accArg, distArg, prev, accZ, distZ,
                   failZ, detFailed, raisedBy, history, state, resolved, svc,
                   interval, data, zones, indicators, fbEvents, scoreVars, confVars,
                   riskVars>>

\* the loop ends; the candidates are merged and returned
FinishScan ==
    /\ pc = "scan"
    /\ ~ScanGoesOn
    /\ zones' = _merge_overlaps(scanCandidates)
    /\ pc' = "done"
    /\ UNCHANGED <<ohlcOk, candles, argsGiven, accArg, distArg, prev, accZ, distZ,
                   failZ, detFailed, raisedBy, history, state, resolved, svc,
                   interval, data, indicators, fbEvents, scoreVars, confVars,
                   riskVars, scanVars>>

NextScan == CallScan \/ StartScan \/ ScanStep \/ FinishScan

SpecScan == Init /\ [][NextScan]_vars

\* a step of a call that is under way: the interpreter keeps executing
\* detect_zones, whatever that step does to the variables of the scan. A call
\* under way can always take a step: StartScan has no guard but the position,
\* and the loop test ScanGoesOn selects ScanStep or FinishScan.
Running ==
    /\ pc \in {"called", "scan"}
    /\ UNCHANGED zones \/ zones' # zones
    /\ UNCHANGED scanIdx \/ scanIdx' # scanIdx
    /\ UNCHANGED scanCandidates \/ scanCandidates' # scanCandidates
    /\ UNCHANGED taken \/ taken' # taken
    /\ pc' \in {"done", "scan"}
    /\ UNCHANGED <<ohlcOk, candles, argsGiven, accArg, distArg, prev, accZ, distZ,
                   failZ, detFailed, raisedBy, history, state, resolved, svc,
                   interval, data, indicators, fbEvents, scoreVars, confVars,
                   riskVars>>

\* the call, once made, is executed: it is never suspended for ever
SpecScanFair == SpecScan /\ WF_vars(Running)

\* the candles and the durations passing at the start index of the scan
ScanCandles == _normalize(data)

\* what one pass of the loop does to the start index and the accepted windows
GreedyPass ==
    (pc = "scan" /\ pc' = "scan") =>
        LET passing == PassingAt(ScanCandles, scanIdx, svc.max_duration, Profile(interval))
        IN  IF passing = {}
            THEN scanIdx' = scanIdx + 1 /\ taken' = taken
            ELSE \E dur \in passing :
                    /\ \A other \in passing : other <= dur
                    /\ taken' = Append(taken, [start |-> scanIdx, duration |-> dur])
                    /\ scanCandidates' =
                          Append(scanCandidates,
                                 WindowZone(ScanCandles, scanIdx, dur,
                                            Profile(interval).compression_tolerance)[1])
                    /\ scanIdx' = scanIdx + dur

\* the accepted windows lie in the lookback window, one after the other
WindowsInOrder ==
    LET n == Len(ScanCandles)
    IN  /\ \A k \in 1..Len(taken) :
              /\ taken[k].start >= n - svc.lookback /\ taken[k].start >= 0
              /\ taken[k].duration >= Profile(interval).min_duration
              /\ taken[k].duration <= svc.max_duration
              /\ taken[k].start + taken[k].duration <= n
        /\ \A j \in 1..Len(taken) : \A k \in 1..Len(taken) :
              j < k => taken[j].start + taken[j].duration <= taken[k].start
        /\ pc = "scan" =>
              \A k \in 1..Len(taken) : taken[k].start + taken[k].duration <= scanIdx
        /\ Len(scanCandidates) = Len(taken)

\* a pass of the loop changes the state: an accepted window has a duration of
\* at least one candle, so the start index moves forward
PassAdvances ==
    pc = "scan" =>
        /\ scanIdx <= Len(ScanCandles)
        /\ \A dur \in PassingAt(ScanCandles, scanIdx, svc.max_duration,
                                 Profile(interval)) : dur >= 1

AcceptedZones(service, rows, timeframe) ==
    LET cs == _normalize(rows)
        profile == Profile(timeframe)
        n == Len(cs)
    IN  IF n < profile.min_duration + 2 THEN <<>>
        ELSE ScanFrom(cs, IF n - service.lookback > 0 THEN n - service.lookback ELSE 0,
                      <<>>, service, profile)

\* the order of the confidence labels
ConfidenceRank(label) ==
    CASE label = "High" -> 3
      [] label = "Medium" -> 2
      [] OTHER -> 1

\* the accepted zones a returned zone stands for: those starting in its span
MergedInto(zone, accepted) ==
    {j \in 1..Len(accepted) :
        /\ accepted[j].start_time >= zone.start_time
        /\ accepted[j].start_time <= zone.end_time}

\* the bounds, span and score of a returned zone are those of its group
BoundsOfGroup(zone, accepted) ==
    LET group == MergedInto(zone, accepted)
    IN  /\ group # {}
        /\ zone.zone_high = MaxOf({accepted[j].zone_high : j \in group})
        /\ zone.zone_low = MinOf({accepted[j].zone_low : j \in group})
        /\ zone.start_time = MinOf({accepted[j].start_time : j \in group})
        /\ zone.end_time = MaxOf({accepted[j].end_time : j \in group})
        /\ zone.score = MaxOf({accepted[j].score : j \in group})
        /\ Cardinality(group) = 1 => \A j \in group : zone = accepted[j]

\* the confidence of a returned zone is the highest confidence of its group
ConfidenceOfGroup(zone, accepted) ==
    \A j \in MergedInto(zone, accepted) :
        ConfidenceRank(zone.confidence) >= ConfidenceRank(accepted[j].confidence)

\* C29 as stated: a returned zone that stands for two accepted zones
\* overlapping in time has the maximum of their highs, the minimum of their
\* lows, a span covering both, the maximum of their scores and the confidence
\* of the one with the higher confidence; accepted zones that do not overlap
\* are returned unchanged, and the returned zones are in time order.
C29_MergedZoneTakesBest ==
    pc = "done" =>
        LET accepted == AcceptedZones(svc, data, interval)
        IN  /\ \A k \in 1..Len(zones) :
                  /\ BoundsOfGroup(zones[k], accepted)
                  /\ ConfidenceOfGroup(zones[k], accepted)
            /\ \A k \in 1..(Len(zones) - 1) : zones[k].end_time < zones[k + 1].start_time
            /\ (\A i \in 1..Len(accepted) : \A j \in 1..Len(accepted) :
                    i < j => accepted[i].end_time < accepted[j].start_time)
                  => zones = accepted

\* ------------------------------------------- current state against history
\* a caller hands evaluate_structure a series of well-formed candles and lets
\* it run the detectors
CallEvaluateSeries ==
    /\ pc = "idle"
    /\ prev' = None
    /\ ohlcOk' = TRUE
    /\ candles' \in SeqsUpTo({"time"}, SeriesMaxCandles)
    /\ argsGiven' = FALSE
    /\ accArg' = <<>>
    /\ distArg' = <<>>
    /\ UNCHANGED accVars
    /\ pc' = "called"
    /\ UNCHANGED <<accZ, distZ, failZ, detFailed, raisedBy, history, state, resolved>>

NextSeries == CallEvaluateSeries \/ EvaluateStructure

SpecSeries == Init /\ [][NextSeries]_vars

\* C30 as stated: whenever the state evaluate_structure returns has a
\* non-empty regime_history, the bias of the last event is the state's bias,
\* and the current duration computed from that bias and history is at least 1.
C30_HistoryEndsInCurrentRegime ==
    (pc = "done" /\ state.regime_history # <<>>) =>
        /\ Last(state.regime_history).bias = state.bias
        /\ _calculate_current_duration(state.regime_history, state.bias) >= 1

====
